---------------------------- MODULE Spec2Model ----------------------------
(***************************************************************************)
(* A model of pass-import 2.4 (src/pass_import.py): the format parsers,    *)
(* the entry normaliser, the path builder and the insert loop of main.     *)
(*                                                                         *)
(* Python strings are sequences of one-character tokens, so that replace,  *)
(* strip, join and the line format are computed character by character.    *)
(* The character NUL is the token "NUL".  A value that Python holds as     *)
(* None or as '' is the empty sequence: the only place the program looks   *)
(* at such a value is the test `not v` of PasswordManager.clean, which     *)
(* treats the two alike.  An OrderedDict is a sequence of [k, v] records   *)
(* in insertion order.                                                     *)
(***************************************************************************)
EXTENDS Integers, Sequences, FiniteSets, TLC

(***************************************************************************)
(* Bounds of the model.                                                    *)
(***************************************************************************)
MaxBatch == 3       \* rows of a CSV file
MaxIter == 8        \* iterations of the inner loop of _duplicate_numerise
MaxStrLen == 3      \* length of the strings fed to the pure transforms
MaxRuns == 3        \* runs of the importer on one store
MaxPassErrors == 1  \* calls of pass that return non-zero
MaxParts == 3       \* pieces of the strings fed to _clean_protocol
MaxDepth == 3       \* folders of a 1PIF file, one below the other
MaxIds == 2         \* ids in the .gpg-id file
MaxRootBatch == 2   \* rows of a file imported with --path

(***************************************************************************)
(* Python str primitives.                                                  *)
(***************************************************************************)
Digits == {"0", "1", "2", "3", "4", "5", "6", "7", "8", "9"}

Whitespace == {" ", "\t", "\n"}

DigitChar(d) ==
    CASE d = 0 -> "0" [] d = 1 -> "1" [] d = 2 -> "2" [] d = 3 -> "3"
      [] d = 4 -> "4" [] d = 5 -> "5" [] d = 6 -> "6" [] d = 7 -> "7"
      [] d = 8 -> "8" [] d = 9 -> "9"

RECURSIVE Str(_)
\* str(n) for a natural number n
Str(n) == IF n < 10 THEN <<DigitChar(n)>>
          ELSE Str(n \div 10) \o <<DigitChar(n % 10)>>

StartsWith(s, p) ==
    /\ Len(p) <= Len(s)
    /\ SubSeq(s, 1, Len(p)) = p

EndsWith(s, p) ==
    /\ Len(p) <= Len(s)
    /\ SubSeq(s, Len(s) - Len(p) + 1, Len(s)) = p

Drop(s, n) == SubSeq(s, n + 1, Len(s))

RECURSIVE Replace(_, _, _)
\* s.replace(old, new) for a non-empty old: every non-overlapping
\* occurrence, scanning from the left
Replace(s, old, new) ==
    IF Len(s) < Len(old) THEN s
    ELSE IF StartsWith(s, old) THEN new \o Replace(Drop(s, Len(old)), old, new)
    ELSE <<Head(s)>> \o Replace(Tail(s), old, new)

RECURSIVE LStrip(_)
LStrip(s) == IF s # <<>> /\ Head(s) \in Whitespace THEN LStrip(Tail(s)) ELSE s

RECURSIVE RStrip(_)
RStrip(s) == IF s # <<>> /\ s[Len(s)] \in Whitespace
             THEN RStrip(SubSeq(s, 1, Len(s) - 1)) ELSE s

\* s.strip()
Strip(s) == RStrip(LStrip(s))

RECURSIVE Concat(_)
\* the concatenation of a list of lists
Concat(ss) == IF ss = <<>> THEN <<>> ELSE Head(ss) \o Concat(Tail(ss))

\* os.path.join(a, b) of posixpath
Join(a, b) ==
    IF StartsWith(b, <<"/">>) THEN b
    ELSE IF a = <<>> \/ EndsWith(a, <<"/">>) THEN a \o b
    ELSE a \o <<"/">> \o b

Contains(s, c) == \E i \in 1..Len(s) : s[i] = c


(***************************************************************************)
(* OrderedDict: a sequence of [k, v] records in insertion order.           *)
(***************************************************************************)
Has(entry, key) == \E i \in 1..Len(entry) : entry[i].k = key

\* entry.get(key, '')
Get(entry, key) ==
    IF Has(entry, key)
    THEN entry[CHOOSE i \in 1..Len(entry) : entry[i].k = key].v
    ELSE <<>>

\* the entry after entry.pop(key, default)
Pop(entry, key) == SelectSeq(entry, LAMBDA f : f.k # key)

\* the entry after entry[key] = value: an existing key keeps its place
Put(entry, key, value) ==
    IF Has(entry, key)
    THEN [i \in 1..Len(entry) |->
             IF entry[i].k = key THEN [k |-> key, v |-> value] ELSE entry[i]]
    ELSE Append(entry, [k |-> key, v |-> value])

(***************************************************************************)
(* PasswordManager: the tables set by __init__ and the string transforms.  *)
(***************************************************************************)
keyslist == <<"title", "password", "login", "url", "comments", "group", "binary">>

\* a slip: the apostrophe becomes a space
cleans_apostrophe == << <<" ", <<"_">> >>, <<"&", <<"a", "n", "d">> >>,
                        <<"@", <<"A", "t">> >>, <<"'", <<" ">> >>, <<"[", <<>> >>,
                        <<"]", <<>> >>, <<"/", <<"-">> >> >>

cleans == << <<" ", <<"_">> >>, <<"&", <<"a", "n", "d">> >>,
             <<"@", <<"A", "t">> >>, <<"'", <<>> >>, <<"[", <<>> >>,
             <<"]", <<>> >>, <<"/", <<"-">> >> >>

protocols == << <<"h", "t", "t", "p", ":", "/", "/">>,
                <<"h", "t", "t", "p", "s", ":", "/", "/">> >>

invalids == <<"<", ">", ":", "\"", "/", "\\", "|", "?", "*", "NUL">>

os_sep == <<"/">>

RECURSIVE replaces(_, _)
\* caracters is the dict as a sequence of <<key, replacement>> pairs, a key
\* being one character or (for the protocols) a string
replaces(caracters, string) ==
    IF caracters = <<>> THEN string
    ELSE replaces(Tail(caracters),
                  Replace(string, caracters[1][1], caracters[1][2]))

clean_protocol(string) ==
    replaces([i \in 1..Len(protocols) |-> <<protocols[i], <<>> >>], string)

clean_group(separator, string) ==
    replaces([i \in 1..Len(invalids) |->
                 <<  <<invalids[i]>>,
                     IF invalids[i] \in {"/", "\\"} THEN os_sep ELSE separator >>],
             string)

convert(separator, string) ==
    replaces([i \in 1..Len(invalids) |-> << <<invalids[i]>>, separator >>],
             string)

\* a slip: the string is not stripped
clean_cmdline_nostrip(string) ==
    replaces([i \in 1..Len(cleans) |-> << <<cleans[i][1]>>, cleans[i][2] >>],
             string)

clean_cmdline(string) ==
    replaces([i \in 1..Len(cleans) |-> << <<cleans[i][1]>>, cleans[i][2] >>],
             Strip(string))


notitle == <<"n", "o", "t", "i", "t", "l", "e">>

\* a slip: login is looked at before title
LeafKey_login_first(entry) ==
    IF Has(entry, "login") THEN "login"
    ELSE IF Has(entry, "title") THEN "title"
    ELSE IF Has(entry, "url") THEN "url"
    ELSE ""

\* the first of title, login, url that is a key of the entry, "" when none
LeafKey(entry) ==
    IF Has(entry, "title") THEN "title"
    ELSE IF Has(entry, "login") THEN "login"
    ELSE IF Has(entry, "url") THEN "url"
    ELSE ""

\* the local variable title of _create_path when the loop is left
LeafTitle(entry, clean, convert_, separator) ==
    IF LeafKey(entry) = "" THEN <<>>
    ELSE LET t0 == clean_protocol(Get(entry, LeafKey(entry)))
             t1 == IF clean THEN clean_cmdline(t0) ELSE t0
         IN  IF convert_ THEN convert(separator, t1) ELSE t1

\* the value _create_path returns; the entry loses its title (see PopTitle)
create_path(entry, path, clean, convert_, separator) ==
    LET title == LeafTitle(entry, clean, convert_, separator)
        p1 == IF LeafKey(entry) = "" THEN path ELSE Join(path, title)
    IN  IF title = <<>> THEN Join(p1, notitle) ELSE p1

\* a slip: the title is left in the entry
PopTitle_keep(entry) == entry

\* entry.pop('title', '') at the end of _create_path
PopTitle(entry) == Pop(entry, "title")

\* a slip: the removal of the empty fields spares the password
CleanEntry_keep_password(entry, clean, convert_, separator) ==
    LET e1 == SelectSeq(entry, LAMBDA f : f.v # <<>> \/ f.k = "password")
        path == clean_group(separator, clean_protocol(Get(e1, "group")))
        e2 == Pop(e1, "group")
    IN  Put(PopTitle(e2), "path",
            create_path(e2, path, clean, convert_, separator))

\* the body of the for loop of clean, for one entry
CleanEntry(entry, clean, convert_, separator) ==
    LET e1 == SelectSeq(entry, LAMBDA f : f.v # <<>>)
        path == clean_group(separator, clean_protocol(Get(e1, "group")))
        e2 == Pop(e1, "group")
    IN  Put(PopTitle(e2), "path",
            create_path(e2, path, clean, convert_, separator))

\* a slip: the group-collision pass leaves every path as it is
duplicate_paths_skip(data, clean, convert_, separator) == data

\* a slip: the first entry of a shared path keeps it
duplicate_paths_rest(data, clean, convert_, separator) ==
    [idx \in 1..Len(data) |->
        LET path == Get(data[idx], "path")
            duplicated == {j \in 1..Len(data) : Get(data[j], "path") = path}
        IN  IF \E j \in duplicated : j < idx
            THEN Put(PopTitle(data[idx]), "path",
                     create_path(data[idx], path, clean, convert_, separator))
            ELSE data[idx]]

\* _duplicate_paths: every entry whose path is shared gets a new path
duplicate_paths(data, clean, convert_, separator) ==
    [idx \in 1..Len(data) |->
        LET path == Get(data[idx], "path")
            duplicated == {j \in 1..Len(data) : Get(data[j], "path") = path}
        IN  IF Cardinality(duplicated) > 1
            THEN Put(PopTitle(data[idx]), "path",
                     create_path(data[idx], path, clean, convert_, separator))
            ELSE data[idx]]

\* the separator read as a regular expression matches the whole of m: the
\* character "." matches any character but a newline, the others themselves
\* (the separators of this model hold no other special character)
SepMatches(separator, m) ==
    /\ Len(m) = Len(separator)
    /\ \A i \in 1..Len(m) :
          IF separator[i] = "." THEN m[i] # "\n" ELSE m[i] = separator[i]

AllDigits(s) == s # <<>> /\ \A i \in 1..Len(s) : s[i] \in Digits

\* re.search('%s(\d+)$' % separator, path) is not None; $ also matches
\* before a newline that ends the string
SuffixSearch(separator, path) ==
    LET Ends(s) ==
          \E i \in 1..Len(s) :
             /\ AllDigits(SubSeq(s, i, Len(s)))
             /\ i - 1 >= Len(separator)
             /\ SepMatches(separator, SubSeq(s, i - Len(separator), i - 1))
    IN  \/ Ends(path)
        \/ /\ EndsWith(path, <<"\n">>)
           /\ Ends(SubSeq(path, 1, Len(path) - 1))

\* a slip: `if path in seen` for `while path in seen`, one suffix and no
\* second look at seen
NumeriseLoop_once(path, ii, seen, separator) ==
    IF path \notin seen THEN [hung |-> FALSE, path |-> path]
    ELSE [hung |-> FALSE, path |-> path \o separator \o Str(ii)]

RECURSIVE NumeriseLoop(_, _, _, _)
\* the while loop of _duplicate_numerise; hung when it is still running
\* after MaxIter iterations
NumeriseLoop(path, ii, seen, separator) ==
    IF path \notin seen THEN [hung |-> FALSE, path |-> path]
    ELSE IF ii > MaxIter THEN [hung |-> TRUE, path |-> path]
    ELSE IF ~SuffixSearch(separator, path)
    THEN NumeriseLoop(path \o separator \o Str(ii), ii, seen, separator)
    ELSE NumeriseLoop(Replace(path, separator \o Str(ii),
                              separator \o Str(ii + 1)),
                      ii + 1, seen, separator)

RECURSIVE NumeriseFrom_seen_old(_, _, _, _)
\* a slip: seen records the path the entry came with, not the one it leaves
\* with
NumeriseFrom_seen_old(data, idx, seen, separator) ==
    IF idx > Len(data) THEN [hung |-> FALSE, data |-> data]
    ELSE LET path == Get(data[idx], "path")
             r == NumeriseLoop(path, 1, seen, separator)
         IN  IF path \notin seen
             THEN NumeriseFrom_seen_old(data, idx + 1, seen \cup {path}, separator)
             ELSE IF r.hung THEN [hung |-> TRUE, data |-> data]
             ELSE NumeriseFrom_seen_old([data EXCEPT ![idx] = Put(@, "path", r.path)],
                                        idx + 1, seen \cup {path}, separator)

RECURSIVE NumeriseFrom(_, _, _, _)
\* the for loop of _duplicate_numerise from entry idx on
NumeriseFrom(data, idx, seen, separator) ==
    IF idx > Len(data) THEN [hung |-> FALSE, data |-> data]
    ELSE LET path == Get(data[idx], "path")
             r == NumeriseLoop(path, 1, seen, separator)
         IN  IF path \notin seen
             THEN NumeriseFrom(data, idx + 1, seen \cup {path}, separator)
             ELSE IF r.hung THEN [hung |-> TRUE, data |-> data]
             ELSE NumeriseFrom([data EXCEPT ![idx] = Put(@, "path", r.path)],
                               idx + 1, seen \cup {r.path}, separator)

duplicate_numerise(data, separator) == NumeriseFrom(data, 1, {}, separator)

\* a slip: the entries come out last first
clean_reversed(data, clean_, convert_, separator) ==
    LET d1 == [i \in 1..Len(data) |->
                  CleanEntry(data[Len(data) + 1 - i], clean_, convert_, separator)]
    IN  duplicate_numerise(duplicate_paths(d1, clean_, convert_, separator),
                           separator)

\* PasswordManager.clean: [hung, data]
clean(data, clean_, convert_, separator) ==
    LET d1 == [i \in 1..Len(data) |->
                  CleanEntry(data[i], clean_, convert_, separator)]
    IN  duplicate_numerise(duplicate_paths(d1, clean_, convert_, separator),
                           separator)


\* PasswordManager.get: the text of an entry, and the entry it leaves behind
\* (the password is popped)
KeyText(key) ==
    CASE key = "login" -> <<"l", "o", "g", "i", "n">>
      [] key = "url" -> <<"u", "r", "l">>
      [] key = "comments" -> <<"c", "o", "m", "m", "e", "n", "t", "s">>
      [] key = "binary" -> <<"b", "i", "n", "a", "r", "y">>
      [] key = "title" -> <<"t", "i", "t", "l", "e">>
      [] key = "group" -> <<"g", "r", "o", "u", "p">>
      [] key = "password" -> <<"p", "a", "s", "s", "w", "o", "r", "d">>
      [] key = "path" -> <<"p", "a", "t", "h">>
      [] key = "fav" -> <<"f", "a", "v">>
      [] key = "extra" -> <<"e", "x", "t", "r", "a">>
      [] key = "grouping" -> <<"g", "r", "o", "u", "p", "i", "n", "g">>
      [] key = "name" -> <<"n", "a", "m", "e">>
      [] key = "username" -> <<"u", "s", "e", "r", "n", "a", "m", "e">>

RECURSIVE Lines_nospace(_)
\* a slip: '%s:%s' for '%s: %s'
Lines_nospace(items) ==
    IF items = <<>> THEN <<>>
    ELSE (IF items[1].k = "path" THEN <<>>
          ELSE KeyText(items[1].k) \o <<":">> \o items[1].v \o <<"\n">>)
         \o Lines_nospace(Tail(items))

RECURSIVE Lines(_)
\* the for loop of get over the items of the entry
Lines(items) ==
    IF items = <<>> THEN <<>>
    ELSE (IF items[1].k = "path" THEN <<>>
          ELSE KeyText(items[1].k) \o <<":", " ">> \o items[1].v \o <<"\n">>)
         \o Lines(Tail(items))

get(entry) == Get(entry, "password") \o <<"\n">> \o Lines(Pop(entry, "password"))

(***************************************************************************)
(* The managers of the model and their canonical-to-native key tables.     *)
(***************************************************************************)
CSVManagers == {"lastpass", "chrome"}

XMLManagers == {"keepassx"}

Managers == CSVManagers \cup XMLManagers

\* the class attribute keys, as the sequence of its <<canonical, native>> items
keys(manager) ==
    CASE manager = "lastpass" ->
           << <<"title", "name">>, <<"password", "password">>,
              <<"login", "username">>, <<"url", "url">>,
              <<"comments", "extra">>, <<"group", "grouping">> >>
      [] manager = "chrome" ->
           << <<"title", "name">>, <<"password", "password">>,
              <<"login", "username">>, <<"url", "url">> >>
      [] manager = "keepassx" ->
           << <<"title", "title">>, <<"password", "password">>,
              <<"login", "username">>, <<"url", "url">>,
              <<"comments", "comment">> >>
      [] manager = "1password4pif" ->
           << <<"title", "title">>, <<"password", "password">>,
              <<"login", "username">>, <<"url", "location">>,
              <<"comments", "notesPlain">>, <<"group", "folderUuid">> >>

\* self.keys.get(key, '')
NativeKey(manager, key) ==
    LET ks == keys(manager)
    IN  IF \E i \in 1..Len(ks) : ks[i][1] = key
        THEN ks[CHOOSE i \in 1..Len(ks) : ks[i][1] = key][2]
        ELSE ""

\* the class attribute format of the XML managers
format(manager) == CASE manager = "keepassx" -> "database"

(***************************************************************************)
(* The input files of the model.                                           *)
(***************************************************************************)
Columns == <<"url", "username", "password", "extra", "name", "grouping", "fav">>

\* the header lines: the second lacks grouping, the fourth lacks password;
\* to chrome the columns extra, grouping and fav are extra fields
Headers(manager) ==
    CASE manager = "lastpass" ->
           { Columns,
             <<"url", "username", "password", "extra", "name", "fav">> }
      [] manager = "chrome" ->
           { Columns,
             <<"url", "username", "extra", "name", "grouping", "fav">> }

\* the title of the entries of the collision example
Example == <<"E", "x", "a", "m", "p", "l", "e">>

Rows ==
    { [name |-> <<"E", "x", "a", "m", "p", "l", "e">>, grouping |-> <<>>, username |-> <<>>, url |-> <<>>, password |-> <<>>, extra |-> <<>>, fav |-> <<>>],
      [name |-> <<>>, grouping |-> <<>>, username |-> <<"a", "l", "i", "c", "e">>, url |-> <<>>, password |-> <<"p", "\n", "q">>, extra |-> <<>>, fav |-> <<>>],
      [name |-> <<>>, grouping |-> <<>>, username |-> <<>>, url |-> <<>>, password |-> <<>>, extra |-> <<"c">>, fav |-> <<>>],
      [name |-> <<"h", "t", "t", "p", ":", "/", "/">>, grouping |-> <<"g", ":", "h", "/", "i">>, username |-> <<" ", "u", ":">>, url |-> <<>>, password |-> <<"p", "\t", "w">>, extra |-> <<>>, fav |-> <<>>],
      [name |-> <<"B", "a", "n", "k">>, grouping |-> <<>>, username |-> <<"a", "/", "b", "-", "0">>, url |-> <<"h", "t", "t", "p", "s", ":", "/", "/", "x", ".", "y">>, password |-> <<>>, extra |-> <<"c">>, fav |-> <<"1">>] }

Separators == { <<"-">>, <<".">> }


\* the element trees of the XML files: a node is [id, tag, fields, children],
\* fields being its text children (tag and text) and children its group and
\* entry elements in document order
XmlDocs ==
    { [id |-> 0, tag |-> "database", fields |-> <<>>, children |-> <<[id |-> 1, tag |-> "group", fields |-> <<[k |-> "title", v |-> <<"G">>]>>, children |-> <<[id |-> 2, tag |-> "entry", fields |-> <<[k |-> "title", v |-> <<"a">>], [k |-> "username", v |-> <<>>], [k |-> "password", v |-> <<"p", "w">>], [k |-> "url", v |-> <<>>], [k |-> "comment", v |-> <<>>]>>, children |-> <<>>], [id |-> 3, tag |-> "group", fields |-> <<[k |-> "title", v |-> <<"H">>]>>, children |-> <<[id |-> 4, tag |-> "entry", fields |-> <<[k |-> "title", v |-> <<"b">>], [k |-> "username", v |-> <<"a", "l", "i", "c", "e">>], [k |-> "password", v |-> <<>>], [k |-> "url", v |-> <<>>], [k |-> "comment", v |-> <<>>]>>, children |-> <<>>]>>], [id |-> 5, tag |-> "entry", fields |-> <<[k |-> "title", v |-> <<"a">>], [k |-> "username", v |-> <<>>], [k |-> "password", v |-> <<>>], [k |-> "url", v |-> <<>>], [k |-> "comment", v |-> <<>>]>>, children |-> <<>>]>>]>>],
      [id |-> 0, tag |-> "KeePassFile", fields |-> <<>>, children |-> <<[id |-> 1, tag |-> "group", fields |-> <<[k |-> "title", v |-> <<"G">>]>>, children |-> <<[id |-> 2, tag |-> "entry", fields |-> <<[k |-> "title", v |-> <<"a">>], [k |-> "username", v |-> <<>>], [k |-> "password", v |-> <<"p", "w">>], [k |-> "url", v |-> <<>>], [k |-> "comment", v |-> <<>>]>>, children |-> <<>>], [id |-> 3, tag |-> "group", fields |-> <<[k |-> "title", v |-> <<"H">>]>>, children |-> <<[id |-> 4, tag |-> "entry", fields |-> <<[k |-> "title", v |-> <<"b">>], [k |-> "username", v |-> <<"a", "l", "i", "c", "e">>], [k |-> "password", v |-> <<>>], [k |-> "url", v |-> <<>>], [k |-> "comment", v |-> <<>>]>>, children |-> <<>>]>>], [id |-> 5, tag |-> "entry", fields |-> <<[k |-> "title", v |-> <<"a">>], [k |-> "username", v |-> <<>>], [k |-> "password", v |-> <<>>], [k |-> "url", v |-> <<>>], [k |-> "comment", v |-> <<>>]>>, children |-> <<>>]>>]>>],
      [id |-> 0, tag |-> "database", fields |-> <<>>, children |-> <<[id |-> 1, tag |-> "entry", fields |-> <<[k |-> "title", v |-> <<>>], [k |-> "username", v |-> <<>>], [k |-> "password", v |-> <<"p", "w">>], [k |-> "url", v |-> <<>>], [k |-> "comment", v |-> <<>>]>>, children |-> <<>>], [id |-> 2, tag |-> "group", fields |-> <<[k |-> "title", v |-> <<>>]>>, children |-> <<[id |-> 3, tag |-> "entry", fields |-> <<[k |-> "title", v |-> <<"a">>], [k |-> "username", v |-> <<>>], [k |-> "password", v |-> <<>>], [k |-> "url", v |-> <<>>], [k |-> "comment", v |-> <<>>]>>, children |-> <<>>]>>]>>],
      [id |-> 0, tag |-> "passwordsafe", fields |-> <<>>, children |-> <<[id |-> 1, tag |-> "entry", fields |-> <<[k |-> "title", v |-> <<>>], [k |-> "username", v |-> <<>>], [k |-> "password", v |-> <<"p", "w">>], [k |-> "url", v |-> <<>>], [k |-> "comment", v |-> <<>>]>>, children |-> <<>>], [id |-> 2, tag |-> "group", fields |-> <<[k |-> "title", v |-> <<>>]>>, children |-> <<[id |-> 3, tag |-> "entry", fields |-> <<[k |-> "title", v |-> <<"a">>], [k |-> "username", v |-> <<>>], [k |-> "password", v |-> <<>>], [k |-> "url", v |-> <<>>], [k |-> "comment", v |-> <<>>]>>, children |-> <<>>]>>]>>] }

NoTree == [id |-> 0, tag |-> "", fields |-> <<>>, children |-> <<>>]

\* the file without a single line, for which reader.fieldnames is None
EmptyFile == [header |-> <<>>, rows |-> <<>>, tree |-> NoTree, empty |-> TRUE]

RECURSIVE SeqsUpTo(_, _)
\* the sequences over S of length at most n
SeqsUpTo(S, n) ==
    IF n = 0 THEN { <<>> }
    ELSE LET shorter == SeqsUpTo(S, n - 1)
         IN  shorter \cup { Append(s, x) : s \in shorter, x \in S }

\* a CSV file: a header line and at most MaxBatch rows, each row holding the
\* values of the header's columns; or the empty file
CsvFiles(manager) ==
    { [header |-> h,
       rows |-> [i \in 1..Len(b) |-> [j \in 1..Len(h) |-> b[i][h[j]]]],
       tree |-> NoTree,
       empty |-> FALSE] : h \in Headers(manager), b \in SeqsUpTo(Rows, MaxBatch) }
    \cup { EmptyFile }

XmlFiles ==
    { [header |-> <<>>, rows |-> <<>>, tree |-> d, empty |-> FALSE] : d \in XmlDocs }

Files(manager) == IF manager \in CSVManagers THEN CsvFiles(manager) ELSE XmlFiles

(***************************************************************************)
(* PasswordManagerCSV.                                                     *)
(***************************************************************************)
\* a slip: one required column in the header is enough
checkformat_csv_any(manager, fieldnames) ==
    \E i \in 1..Len(keys(manager)) :
       \E j \in 1..Len(fieldnames) : fieldnames[j] = keys(manager)[i][2]

\* _checkformat returns without raising FormatError
checkformat_csv(manager, fieldnames) ==
    \A i \in 1..Len(keys(manager)) :
       \E j \in 1..Len(fieldnames) : fieldnames[j] = keys(manager)[i][2]

RECURSIVE CanonFields(_, _, _, _)
\* for key in self.keyslist: entry[key] = row.pop(self.keys.get(key, ''), None)
\* from the i-th key on; [entry, row]
CanonFields(manager, entry, row, i) ==
    IF i > Len(keyslist) THEN [entry |-> entry, row |-> row]
    ELSE LET col == NativeKey(manager, keyslist[i])
         IN  CanonFields(manager, Put(entry, keyslist[i], Get(row, col)),
                         Pop(row, col), i + 1)

RECURSIVE ExtraFields(_, _)
\* for col in row: entry[col] = row.get(col, None)
ExtraFields(entry, row) ==
    IF row = <<>> THEN entry
    ELSE ExtraFields(Put(entry, row[1].k, row[1].v), Tail(row))

\* a slip: the extra fields are put in the entry before the canonical ones
ParseRow_extras_first(manager, all, header, values) ==
    LET row == [j \in 1..Len(header) |-> [k |-> header[j], v |-> values[j]]]
        c == CanonFields(manager, <<>>, row, 1)
    IN  IF all THEN c.row \o c.entry ELSE c.entry

\* the body of the for loop of parse for one row of the reader
ParseRow(manager, all, header, values) ==
    LET row == [j \in 1..Len(header) |-> [k |-> header[j], v |-> values[j]]]
        c == CanonFields(manager, <<>>, row, 1)
    IN  IF all THEN ExtraFields(c.entry, c.row) ELSE c.entry

\* PasswordManagerCSV.parse: [error, data, visited]; with fieldnames None the
\* test `csvkey not in fieldnames` of _checkformat raises TypeError
parse_csv(manager, all, f) ==
    IF f.empty
    THEN [error |-> "TypeError", data |-> <<>>, visited |-> <<>>]
    ELSE IF ~checkformat_csv(manager, f.header)
    THEN [error |-> "FormatError", data |-> <<>>, visited |-> <<>>]
    ELSE [error |-> "none",
          data |-> [i \in 1..Len(f.rows) |->
                       ParseRow(manager, all, f.header, f.rows[i])],
          visited |-> <<>>]

(***************************************************************************)
(* PasswordManagerXML and KeepassX.                                        *)
(***************************************************************************)
\* a slip: the root tag of the other KeePass format is let through
checkformat_xml_any(manager, tree) ==
    tree.tag \in {format(manager), "KeePassFile"}

\* PasswordManagerXML._checkformat returns without raising FormatError
checkformat_xml(manager, tree) == tree.tag = format(manager)

untitled == <<"u", "n", "t", "i", "t", "l", "e", "d">>

\* KeepassX._getpath
getpath(element, path) ==
    IF element.tag # "database"
    THEN IF Get(element.fields, "title") # <<>>
         THEN Join(path, Get(element.fields, "title"))
         ELSE Join(path, untitled)
    ELSE <<>>

RECURSIVE GetEntryFrom(_, _, _, _)
\* the first loop of _getentry from the i-th key on
GetEntryFrom(manager, element, entry, i) ==
    IF i > Len(keyslist) THEN entry
    ELSE LET xmlkey == NativeKey(manager, keyslist[i])
         IN  GetEntryFrom(manager, element,
                          IF xmlkey # ""
                          THEN Put(entry, keyslist[i], Get(element.fields, xmlkey))
                          ELSE entry,
                          i + 1)

getentry(manager, element) == GetEntryFrom(manager, element, <<>>, 1)

RECURSIVE import(_, _, _)
RECURSIVE ImportGroups(_, _, _)
\* a slip: the entries of a group are appended before its subgroups are walked
import_entries_first(manager, element, path0) ==
    LET path == getpath(element, path0)
        groups == SelectSeq(element.children, LAMBDA c : c.tag = "group")
        entries == SelectSeq(element.children, LAMBDA c : c.tag = "entry")
        sub == ImportGroups(manager, groups, path)
    IN  [data |-> [i \in 1..Len(entries) |->
                      Put(Put(getentry(manager, entries[i]), "title",
                              getpath(entries[i], <<>>)),
                          "group", path)]
                  \o sub.data,
         visited |-> <<element.id>> \o
                     [i \in 1..Len(entries) |-> entries[i].id] \o sub.visited]

\* KeepassX._import: the entries appended to data and the nodes visited
import(manager, element, path0) ==
    LET path == getpath(element, path0)
        groups == SelectSeq(element.children, LAMBDA c : c.tag = "group")
        entries == SelectSeq(element.children, LAMBDA c : c.tag = "entry")
        sub == ImportGroups(manager, groups, path)
    IN  [data |-> sub.data \o
                  [i \in 1..Len(entries) |->
                      Put(Put(getentry(manager, entries[i]), "title",
                              getpath(entries[i], <<>>)),
                          "group", path)],
         visited |-> <<element.id>> \o sub.visited \o
                     [i \in 1..Len(entries) |-> entries[i].id]]

ImportGroups(manager, groups, path) ==
    IF groups = <<>> THEN [data |-> <<>>, visited |-> <<>>]
    ELSE LET first == import(manager, groups[1], path)
             rest == ImportGroups(manager, Tail(groups), path)
         IN  [data |-> first.data \o rest.data,
              visited |-> first.visited \o rest.visited]

\* PasswordManagerXML.parse: [error, data, visited]
parse_xml(manager, f) ==
    IF ~checkformat_xml(manager, f.tree)
    THEN [error |-> "FormatError", data |-> <<>>, visited |-> <<>>]
    ELSE LET r == import(manager, f.tree, <<>>)
         IN  [error |-> "none", data |-> r.data, visited |-> r.visited]


(***************************************************************************)
(* PasswordManagerPIF and OnePassword4PIF.  A JSON item of the file is a   *)
(* record of its top-level keys (top), the keys of its secureContents      *)
(* (scontent) and the named fields of secureContents.fields (fields, name  *)
(* and value as k and v), each in file order.                              *)
(***************************************************************************)
PIFManagers == {"1password4pif"}

ignore == {"keyID", "typeName", "uuid", "openContents", "folderUuid", "URLs"}

Folder == <<"system.folder.Regular">>

WebForm == <<"webforms.WebForm">>

\* the place of the first field named jsonkey, 0 when there is none
FieldIndex(jsonkey, fields) ==
    IF \E i \in 1..Len(fields) : fields[i].k = jsonkey
    THEN CHOOSE i \in 1..Len(fields) :
            /\ fields[i].k = jsonkey
            /\ \A j \in 1..(i - 1) : fields[j].k # jsonkey
    ELSE 0

\* _getvalue: the value, and item, scontent and fields as the call leaves
\* them
getvalue(jsonkey, item, scontent, fields) ==
    LET index == FieldIndex(jsonkey, fields)
        isNone == ~Has(item, jsonkey) /\ ~Has(scontent, jsonkey)
    IN  [value |-> IF Has(scontent, jsonkey) THEN Get(scontent, jsonkey)
                   ELSE IF Has(item, jsonkey) THEN Get(item, jsonkey)
                   ELSE IF index # 0 THEN fields[index].v
                   ELSE <<>>,
         item |-> Pop(item, jsonkey),
         scontent |-> Pop(scontent, jsonkey),
         fields |-> IF isNone /\ index # 0
                    THEN SubSeq(fields, 1, index - 1)
                         \o SubSeq(fields, index + 1, Len(fields))
                    ELSE fields]

RECURSIVE PifCanon(_, _, _, _, _, _)
\* for key in self.keyslist: entry[key] = self._getvalue(...), from the
\* i-th key on
PifCanon(manager, entry, item, scontent, fields, i) ==
    IF i > Len(keyslist)
    THEN [entry |-> entry, item |-> item, scontent |-> scontent,
          fields |-> fields]
    ELSE LET r == getvalue(NativeKey(manager, keyslist[i]), item, scontent,
                           fields)
         IN  PifCanon(manager, Put(entry, keyslist[i], r.value),
                      r.item, r.scontent, r.fields, i + 1)

\* if self.all: the fields left, then the keys of the item updated with
\* those of secureContents, but the ignored ones
PifExtras(entry, item, scontent, fields) ==
    LET updated == ExtraFields(item, scontent)
        kept == SelectSeq(updated, LAMBDA f : f.k \notin ignore)
    IN  ExtraFields(ExtraFields(entry, fields), kept)

\* the entry made of a webforms.WebForm item
PifEntry(manager, all, json) ==
    LET c == PifCanon(manager, <<>>, json.top, json.scontent, json.fields, 1)
    IN  IF all THEN PifExtras(c.entry, c.item, c.scontent, c.fields)
        ELSE c.entry

\* folders[key] = {'group': ..., 'parent': ...}: a key that is there keeps
\* its place
PutFolder(folders, uuid, title, parent) ==
    LET new == [uuid |-> uuid, group |-> title, parent |-> parent]
    IN  IF \E i \in 1..Len(folders) : folders[i].uuid = uuid
        THEN [i \in 1..Len(folders) |->
                 IF folders[i].uuid = uuid THEN new ELSE folders[i]]
        ELSE Append(folders, new)

\* folders.get(uuid, {}).get('group', '')
FolderGroup(folders, uuid) ==
    IF \E i \in 1..Len(folders) : folders[i].uuid = uuid
    THEN folders[CHOOSE i \in 1..Len(folders) : folders[i].uuid = uuid].group
    ELSE <<>>

RECURSIVE SortFolders(_, _)
\* the first loop of _sortgroup, from the i-th folder on: one pass over the
\* folders in the order of the dict
SortFolders(folders, i) ==
    IF i > Len(folders) THEN folders
    ELSE SortFolders(
            [folders EXCEPT ![i].group =
                Join(FolderGroup(folders, folders[i].parent), @)],
            i + 1)

\* _sortgroup: the entries with their group resolved
sortgroup(folders, data) ==
    LET sorted == SortFolders(folders, 1)
    IN  [i \in 1..Len(data) |->
            Put(data[i], "group", FolderGroup(sorted, Get(data[i], "group")))]

RECURSIVE PifItems(_, _, _, _, _, _)
\* the for loop of parse from the i-th item on: [folders, data]
PifItems(manager, all, jsons, i, folders, data) ==
    IF i > Len(jsons) THEN [folders |-> folders, data |-> data]
    ELSE LET item == jsons[i]
             typeName == Get(item.top, "typeName")
         IN  IF typeName = Folder
             THEN PifItems(manager, all, jsons, i + 1,
                           PutFolder(folders, Get(item.top, "uuid"),
                                     Get(item.top, "title"),
                                     Get(item.top, "folderUuid")),
                           data)
             ELSE IF typeName = WebForm
             THEN PifItems(manager, all, jsons, i + 1, folders,
                           Append(data, PifEntry(manager, all, item)))
             ELSE PifItems(manager, all, jsons, i + 1, folders, data)

\* PasswordManagerPIF.parse: [error, data, visited]
parse_pif(manager, all, f) ==
    LET r == PifItems(manager, all, f.jsons, 1, <<>>, <<>>)
    IN  [error |-> "none", data |-> sortgroup(r.folders, r.data),
         visited |-> <<>>]


(***************************************************************************)
(* main: one run of the importer.                                          *)
(*   pc       where main stands: args (before sanitychecks), start,        *)
(*            parsed, cleaned, inserting, done, died (msg.die: exit(1)),   *)
(*            crashed (an exception main does not catch), hung (clean      *)
(*            never returns)                                               *)
(*   manager  arg.manager                                                  *)
(*   arg      the options: clean, convert, separator, extra, force, root   *)
(*            and the file name                                            *)
(*   file     the file handed to parse: header and rows (CSV), tree (XML), *)
(*            jsons (1PIF)                                                 *)
(*   data     importer.data                                                *)
(*   parsed   importer.data as parse left it                               *)
(*   error    the exception or the check main died of                     *)
(*   visited  the ids of the XML nodes _import has walked                  *)
(*   idx      the entries of data the insert loop has gone through         *)
(*   store    the secrets of the password store, path and text             *)
(*   paths    the list paths of main                                       *)
(*   pure     a string transform under test: its name, the separator, the  *)
(*            input and the successive outputs (see SpecStr); for          *)
(*            is_valid_recipients also the keyring (see SpecGpg)           *)
(*   log      the calls of store.insert of this run, with their outcome    *)
(*   runs     the runs that ended before this one, on the same store       *)
(***************************************************************************)
VARIABLES pc, manager, arg, file, data, parsed, error, visited, idx, store, paths,
          pure, log, runs

vars == <<pc, manager, arg, file, data, parsed, error, visited, idx, store, paths,
          pure, log, runs>>

NoPure == [fn |-> "none", separator |-> <<>>, input |-> <<>>, outputs |-> <<>>]

\* arg.file: the name of a file that exists and of none that does
FileNames == {"export", "not_a_file"}

\* one run on an export file that exists, without --force and --path
Args == [clean : BOOLEAN, convert : BOOLEAN, separator : Separators,
         extra : BOOLEAN, force : {FALSE}, root : { <<>> }, file : {"export"}]

Init ==
    /\ pc = "start"
    /\ manager \in Managers
    /\ arg \in Args
    /\ file \in Files(manager)
    /\ data = <<>>
    /\ parsed = <<>>
    /\ error = "none"
    /\ visited = <<>>
    /\ idx = 0
    /\ store = {}
    /\ paths = <<>>
    /\ pure = NoPure
    /\ log = <<>>
    /\ runs = <<>>

\* importer.parse(file, arg.binaries); FormatError is caught by main, which
\* dies; TypeError is not caught and ends the run with a traceback
Parse ==
    /\ pc = "start"
    /\ LET r == IF manager \in CSVManagers
                THEN parse_csv(manager, arg.extra, file)
                ELSE IF manager \in PIFManagers
                THEN parse_pif(manager, arg.extra, file)
                ELSE parse_xml(manager, file)
       IN  /\ data' = r.data
           /\ parsed' = r.data
           /\ visited' = r.visited
           /\ error' = r.error
           /\ pc' = CASE r.error = "none" -> "parsed"
                      [] r.error = "FormatError" -> "died"
                      [] r.error = "TypeError" -> "crashed"
    /\ UNCHANGED <<manager, arg, file, idx, store, paths, pure, log, runs>>

\* importer.clean(arg.clean, arg.convert)
Clean ==
    /\ pc = "parsed"
    /\ LET r == clean(data, arg.clean, arg.convert, arg.separator)
       IN  /\ data' = r.data
           /\ pc' = IF r.hung THEN "hung" ELSE "cleaned"
    /\ UNCHANGED <<manager, arg, file, parsed, error, visited, idx, store, paths,
                   pure, log, runs>>

\* a slip: the answer of is_valid_recipients is reported but the run goes on
StoreChecks_warn_keyring ==
    /\ pc = "cleaned"
    /\ \E prefix \in BOOLEAN, exist \in BOOLEAN, valid \in BOOLEAN :
          /\ ~prefix => ~exist /\ ~valid
          /\ pc' = CASE ~prefix -> "crashed"
                      [] prefix /\ exist -> "inserting"
                      [] OTHER -> "died"
          /\ error' = IF ~prefix THEN "PasswordStoreError"
                      ELSE IF ~exist THEN "password store not initialized"
                      ELSE IF ~valid THEN "invalid user ID" ELSE "none"
    /\ UNCHANGED <<manager, arg, file, data, parsed, visited, idx, store, paths,
                   pure, log, runs>>

\* PasswordStore(), store.exist() and store.is_valid_recipients(), whose
\* answers come from the environment, the file system and the keyring; main
\* does not catch the PasswordStoreError of the constructor
StoreChecks ==
    /\ pc = "cleaned"
    /\ \E prefix \in BOOLEAN, exist \in BOOLEAN, valid \in BOOLEAN :
          /\ ~prefix => ~exist /\ ~valid
          /\ pc' = CASE ~prefix -> "crashed"
                      [] prefix /\ exist /\ valid -> "inserting"
                      [] OTHER -> "died"
          /\ error' = IF ~prefix THEN "PasswordStoreError"
                      ELSE IF ~exist THEN "password store not initialized"
                      ELSE IF ~valid THEN "invalid user ID" ELSE "none"
    /\ UNCHANGED <<manager, arg, file, data, parsed, visited, idx, store, paths,
                   pure, log, runs>>

\* a slip: the test of force is left out
insert_fails_used(path, force) == \E s \in store : s.path = path

\* PasswordStore.insert raises PasswordStoreError
insert_fails(path, force) == ~force /\ \E s \in store : s.path = path

\* a slip: the secret is not kept
Written_nothing(path, text) == store

\* the store once pass has written text at path
Written(path, text) ==
    {s \in store : s.path # path} \cup {[path |-> path, text |-> text]}

\* a slip: the path is appended to paths whatever store.insert did
Insert_append_always ==
    /\ pc = "inserting"
    /\ idx < Len(data)
    /\ LET entry == data[idx + 1]
           passpath == Join(arg.root, Get(entry, "path"))
           text == get(entry)
       IN  /\ data' = [data EXCEPT ![idx + 1] = Pop(entry, "password")]
           /\ paths' = Append(paths, Get(entry, "path"))
           /\ IF insert_fails(passpath, arg.force)
              THEN /\ log' = Append(log, [path |-> passpath, result |-> "exists"])
                   /\ UNCHANGED store
              ELSE /\ log' = Append(log, [path |-> passpath, result |-> "inserted"])
                   /\ store' = Written(passpath, text)
    /\ idx' = idx + 1
    /\ UNCHANGED <<pc, manager, arg, file, parsed, error, visited, pure, runs>>

\* one iteration of the for loop of main over importer.data, pass returning 0
\* when it is called
Insert ==
    /\ pc = "inserting"
    /\ idx < Len(data)
    /\ LET entry == data[idx + 1]
           passpath == Join(arg.root, Get(entry, "path"))
           text == get(entry)
       IN  /\ data' = [data EXCEPT ![idx + 1] = Pop(entry, "password")]
           /\ IF insert_fails(passpath, arg.force)
              THEN /\ log' = Append(log, [path |-> passpath, result |-> "exists"])
                   /\ UNCHANGED <<store, paths>>
              ELSE /\ log' = Append(log, [path |-> passpath, result |-> "inserted"])
                   /\ store' = Written(passpath, text)
                   /\ paths' = Append(paths, Get(entry, "path"))
    /\ idx' = idx + 1
    /\ UNCHANGED <<pc, manager, arg, file, parsed, error, visited, pure, runs>>

\* the calls of pass of this run and of the runs before that returned non-zero
PassErrors ==
    LET all == log \o Concat([n \in 1..Len(runs) |-> runs[n].log])
    IN  Len(SelectSeq(all, LAMBDA a : a.result = "pass error"))

\* one iteration of the for loop of main in which pass is called and returns
\* non-zero, so that _pass raises PasswordStoreError; pass may have written
\* the secret before it failed
InsertPassError ==
    /\ pc = "inserting"
    /\ idx < Len(data)
    /\ PassErrors < MaxPassErrors
    /\ LET entry == data[idx + 1]
           passpath == Join(arg.root, Get(entry, "path"))
           text == get(entry)
       IN  /\ ~insert_fails(passpath, arg.force)
           /\ data' = [data EXCEPT ![idx + 1] = Pop(entry, "password")]
           /\ log' = Append(log, [path |-> passpath, result |-> "pass error"])
           /\ \E written \in BOOLEAN :
                 store' = IF written THEN Written(passpath, text) ELSE store
    /\ idx' = idx + 1
    /\ UNCHANGED <<pc, manager, arg, file, parsed, error, visited, paths, pure,
                   runs>>

\* the characters of the model in the order of their code points
CharOrder ==
    <<"NUL", "\t", "\n", " ", "\"", "&", "'", "*", "-", ".", "/", "0", "1", "2",
      "3", "4", "5", "6", "7", "8", "9", ":", "<", ">", "?", "@", "A", "B",
      "E", "G", "H", "[", "\\", "]", "_", "a", "b", "c", "d", "e", "f",
      "g", "h", "i", "k", "l", "m", "n", "o", "p", "q", "r", "s", "t", "u",
      "v", "w", "x", "y", "|">>

CodePoint(c) == CHOOSE n \in 1..Len(CharOrder) : CharOrder[n] = c

RECURSIVE StrLess(_, _)
\* a < b of two Python strings
StrLess(a, b) ==
    IF b = <<>> THEN FALSE
    ELSE IF a = <<>> THEN TRUE
    ELSE IF Head(a) # Head(b) THEN CodePoint(Head(a)) < CodePoint(Head(b))
    ELSE StrLess(Tail(a), Tail(b))

RECURSIVE Sorted(_)
\* the list after list.sort(), by insertion
Sorted(list) ==
    IF list = <<>> THEN <<>>
    ELSE LET rest == Sorted(Tail(list))
             before == SelectSeq(rest, LAMBDA s : StrLess(s, Head(list)))
             after == SelectSeq(rest, LAMBDA s : ~StrLess(s, Head(list)))
         IN  before \o <<Head(list)>> \o after

\* report(arg, msg, paths, ...), which sorts paths
Report ==
    /\ pc = "inserting"
    /\ idx = Len(data)
    /\ pc' = "done"
    /\ paths' = Sorted(paths)
    /\ UNCHANGED <<manager, arg, file, data, parsed, error, visited, idx, store,
                   pure, log, runs>>

Next == Parse \/ Clean \/ StoreChecks \/ Insert \/ Report

Spec == Init /\ [][Next]_vars


(***************************************************************************)
(* main from the command line on, with pass able to fail, run again and    *)
(* again on the same store.                                                *)
(***************************************************************************)
\* the names sanitychecks knows
importers == Managers

\* arg.manager: None, a name that importers lacks, and a supported name
RunManagers == {"None", "not-a-manager", "lastpass"}

\* arg.separator when the option is not given
NoSeparator == <<"None">>

\* the separator that sanitychecks takes from the .import file, or '-'
ConfigSeparators == Separators

\* the row of Rows that has the title Example alone, and the one that has a
\* login and a password but no title
ExampleRow == CHOOSE r \in Rows : r.name = Example

LoginRow == CHOOSE r \in Rows : r.name = <<>> /\ r.password # <<>>

\* the rows of the files of the runs: no row, one row, two rows, and three
\* rows of which two collide
RunBatches ==
    { <<>>, <<ExampleRow>>, <<ExampleRow, LoginRow>>,
      <<ExampleRow, ExampleRow, LoginRow>> }

\* what the file of a run holds
RunFiles(m) ==
    CASE m = "lastpass" ->
           { [header |-> h,
              rows |-> [i \in 1..Len(b) |-> [j \in 1..Len(h) |-> b[i][h[j]]]],
              tree |-> NoTree,
              empty |-> FALSE] : h \in Headers(m), b \in RunBatches }
           \cup { EmptyFile }
      [] OTHER -> { EmptyFile }

RunArgs == [clean : {FALSE}, convert : {FALSE}, separator : {NoSeparator},
            extra : {FALSE}, force : BOOLEAN, root : { <<"r">> },
            file : FileNames]

\* the secrets of the store before the first run
InitialStores ==
    { {}, {[path |-> <<"r", "/">> \o Example, text |-> <<"o", "l", "d">>]} }

InitRuns ==
    /\ pc = "args"
    /\ manager \in RunManagers
    /\ arg \in RunArgs
    /\ file \in RunFiles(manager)
    /\ data = <<>>
    /\ parsed = <<>>
    /\ error = "none"
    /\ visited = <<>>
    /\ idx = 0
    /\ store \in InitialStores
    /\ paths = <<>>
    /\ pure = NoPure
    /\ log = <<>>
    /\ runs = <<>>

\* os.path.isfile(arg.file)
isfile(name) == name = "export"

\* sanitychecks(arg, msg)
SanityChecks ==
    /\ pc = "args"
    /\ IF manager = "None"
       THEN /\ pc' = "died"
            /\ error' = "password manager not present"
            /\ UNCHANGED arg
       ELSE IF manager \notin importers
       THEN /\ pc' = "died"
            /\ error' = "not a supported password manager"
            /\ UNCHANGED arg
       ELSE IF arg.file # "None" /\ ~isfile(arg.file)
       THEN /\ pc' = "died"
            /\ error' = "not a file"
            /\ UNCHANGED arg
       ELSE /\ pc' = "start"
            /\ UNCHANGED error
            /\ IF arg.separator = NoSeparator
               THEN \E separator \in ConfigSeparators :
                       arg' = [arg EXCEPT !.separator = separator]
               ELSE UNCHANGED arg
    /\ UNCHANGED <<manager, file, data, parsed, visited, idx, store, paths, pure,
                   log, runs>>

\* the process has ended and the importer is started again on the same
\* store, with the same manager, file and options, with or without --force;
\* the .import file is the one of the run before
NextRun ==
    /\ pc \in {"done", "died", "crashed"}
    /\ Len(runs) + 1 < MaxRuns
    /\ runs' = Append(runs, [force |-> arg.force, pc |-> pc, paths |-> paths,
                             store |-> store, log |-> log])
    /\ \E force \in BOOLEAN : arg' = [arg EXCEPT !.force = force]
    /\ pc' = "args"
    /\ data' = <<>>
    /\ parsed' = <<>>
    /\ error' = "none"
    /\ visited' = <<>>
    /\ idx' = 0
    /\ paths' = <<>>
    /\ log' = <<>>
    /\ UNCHANGED <<manager, file, store, pure>>

NextRuns ==
    \/ SanityChecks \/ Parse \/ Clean \/ StoreChecks \/ Insert
    \/ InsertPassError \/ Report \/ NextRun

SpecRuns == InitRuns /\ [][NextRuns]_vars

\* the exit status of the process when main has ended
ExitCode ==
    CASE pc = "done" -> 0
      [] pc \in {"died", "crashed"} -> 1
      [] OTHER -> -1


(***************************************************************************)
(* PasswordManager.clean call by call: the for loop over the entries, then *)
(* _duplicate_paths, then _duplicate_numerise, on files whose entries      *)
(* share titles and groups.                                                *)
(***************************************************************************)
NoRow == [name |-> <<>>, grouping |-> <<>>, username |-> <<>>, url |-> <<>>,
          password |-> <<>>, extra |-> <<>>, fav |-> <<>>]

\* a title in a group, alone and with two logins, and the title that the
\* numbered path of the former two entries makes; a group that holds the
\* separator and a number, and a login that ends with them
CleanRows ==
    { [NoRow EXCEPT !.name = <<"t">>, !.grouping = <<"g">>],
      [NoRow EXCEPT !.name = <<"t">>, !.grouping = <<"g">>,
                    !.username = <<"u">>],
      [NoRow EXCEPT !.name = <<"t">>, !.grouping = <<"g">>,
                    !.username = <<"v">>],
      [NoRow EXCEPT !.name = notitle \o <<"-", "1">>,
                    !.grouping = <<"g", "/", "t">>],
      [NoRow EXCEPT !.name = <<"t">>, !.grouping = <<"g", "-", "1">>],
      [NoRow EXCEPT !.name = <<"t">>, !.grouping = <<"g">>,
                    !.username = <<"u", "-", "1", "2">>] }

CleanFiles ==
    { [header |-> Columns,
       rows |-> [i \in 1..Len(b) |->
                    [j \in 1..Len(Columns) |-> b[i][Columns[j]]]],
       tree |-> NoTree,
       empty |-> FALSE] : b \in SeqsUpTo(CleanRows, MaxBatch) }

InitClean ==
    /\ pc = "start"
    /\ manager = "lastpass"
    /\ arg \in Args
    /\ file \in CleanFiles
    /\ data = <<>>
    /\ parsed = <<>>
    /\ error = "none"
    /\ visited = <<>>
    /\ idx = 0
    /\ store = {}
    /\ paths = <<>>
    /\ pure = NoPure
    /\ log = <<>>
    /\ runs = <<>>

\* the for loop of clean over the entries
CleanEntries ==
    /\ pc = "parsed"
    /\ data' = [i \in 1..Len(data) |->
                   CleanEntry(data[i], arg.clean, arg.convert, arg.separator)]
    /\ pc' = "derived"
    /\ UNCHANGED <<manager, arg, file, parsed, error, visited, idx, store, paths,
                   pure, log, runs>>

\* self._duplicate_paths(clean, convert)
DuplicatePaths ==
    /\ pc = "derived"
    /\ data' = duplicate_paths(data, arg.clean, arg.convert, arg.separator)
    /\ pc' = "subfoldered"
    /\ UNCHANGED <<manager, arg, file, parsed, error, visited, idx, store, paths,
                   pure, log, runs>>

\* self._duplicate_numerise()
DuplicateNumerise ==
    /\ pc = "subfoldered"
    /\ LET r == duplicate_numerise(data, arg.separator)
       IN  /\ data' = r.data
           /\ pc' = IF r.hung THEN "hung" ELSE "cleaned"
    /\ UNCHANGED <<manager, arg, file, parsed, error, visited, idx, store, paths,
                   pure, log, runs>>

NextClean == Parse \/ CleanEntries \/ DuplicatePaths \/ DuplicateNumerise

SpecClean == InitClean /\ [][NextClean]_vars


(***************************************************************************)
(* The parsers on files whose names meet: CSV files with a column named    *)
(* like a canonical key, and 1PIF files with a chain of folders, in every  *)
(* order, and a login found at the top level of the item, in its           *)
(* secureContents and among its fields.                                    *)
(***************************************************************************)
\* the columns of LastPass, then one more: an extra column of any name, and
\* columns named like the canonical keys title and login
ExtraColumns == {"note", "title", "login"}

WideHeaders == { Append(Columns, c) : c \in ExtraColumns }

\* the rows of the wide files: the columns of Columns as in the row, and a
\* value in the last column
WideRows ==
    { [NoRow EXCEPT !.name = <<"n">>, !.username = <<"u">>],
      [NoRow EXCEPT !.name = <<"m">>, !.password = <<"p">>] }

WideValues == { <<>>, <<"x">> }

WideFiles ==
    { [header |-> h,
       rows |-> [i \in 1..Len(b) |->
                    [j \in 1..Len(h) |->
                        IF j <= Len(Columns) THEN b[i][1][h[j]] ELSE b[i][2]]],
       tree |-> NoTree,
       empty |-> FALSE] :
      h \in WideHeaders, b \in SeqsUpTo(WideRows \X WideValues, 2) }

\* the k-th folder of the chain: its parent is folder k - 1, the first one
\* has none
FolderItem(k) ==
    [top |-> << [k |-> "uuid", v |-> Str(k)],
                [k |-> "typeName", v |-> Folder],
                [k |-> "title", v |-> <<"f">> \o Str(k)] >>
             \o (IF k > 1 THEN << [k |-> "folderUuid", v |-> Str(k - 1)] >>
                 ELSE <<>>),
     scontent |-> <<>>,
     fields |-> <<>>]

\* the folders 1..n in every order
FolderOrders(n) ==
    { [i \in 1..n |-> FolderItem(p[i])] :
      p \in { q \in [1..n -> 1..n] : \A i, j \in 1..n : q[i] = q[j] => i = j } }

\* where an item holds its username
Sources == SUBSET {"top", "scontent", "fields"}

\* a login item in folder k (0: in none) with its username in the places src
LoginItem(src, k) ==
    [top |-> << [k |-> "uuid", v |-> <<"E">>],
                [k |-> "typeName", v |-> WebForm],
                [k |-> "title", v |-> <<"t">>] >>
             \o (IF k > 0 THEN << [k |-> "folderUuid", v |-> Str(k)] >>
                 ELSE <<>>)
             \o (IF "top" \in src
                 THEN << [k |-> "username", v |-> <<"t", "o", "p">>] >>
                 ELSE <<>>),
     scontent |-> IF "scontent" \in src
                  THEN << [k |-> "username", v |-> <<"s", "e", "c">>] >>
                  ELSE <<>>,
     fields |-> << [k |-> "password", v |-> <<"p", "w">>] >>
                \o (IF "fields" \in src
                    THEN << [k |-> "username", v |-> <<"f", "l", "d">>] >>
                    ELSE <<>>)]

\* a 1PIF file: the folders of a chain of at most MaxDepth, then a login
PifFiles ==
    { [header |-> <<>>, rows |-> <<>>, tree |-> NoTree, empty |-> FALSE,
       jsons |-> Append(fs, LoginItem(src, k))] :
      fs \in UNION { FolderOrders(n) : n \in 0..MaxDepth },
      src \in Sources, k \in 0..MaxDepth }

ParseManagers == {"lastpass", "1password4pif"}

ParseFiles(m) == IF m \in PIFManagers THEN PifFiles ELSE WideFiles

InitParse ==
    /\ pc = "start"
    /\ manager \in ParseManagers
    /\ arg \in Args
    /\ file \in ParseFiles(manager)
    /\ data = <<>>
    /\ parsed = <<>>
    /\ error = "none"
    /\ visited = <<>>
    /\ idx = 0
    /\ store = {}
    /\ paths = <<>>
    /\ pure = NoPure
    /\ log = <<>>
    /\ runs = <<>>

NextParse == Parse \/ Clean

SpecParse == InitParse /\ [][NextParse]_vars


(***************************************************************************)
(* The string transforms on their own: a transform is applied to an input  *)
(* string, then to its own output.                                         *)
(***************************************************************************)
StrAlphabet == {"a", " ", "\t", "'", "&", ":", "<", "@", "[", "/"}

\* the pieces of the strings that hold a protocol, whole or in part
ProtoParts ==
    { protocols[1], protocols[2], <<"x">>, <<"h", "t">>,
      <<"t", "p", ":", "/", "/">> }

Strings ==
    SeqsUpTo(StrAlphabet, MaxStrLen)
    \cup { Concat(parts) : parts \in SeqsUpTo(ProtoParts, MaxParts) }

StrSeparators == { <<"-">>, <<":">>, <<"-", ":">> }

InitStr ==
    /\ pc = "pure"
    /\ manager = "none"
    /\ arg = [clean |-> FALSE, convert |-> FALSE, separator |-> <<"-">>,
              extra |-> FALSE, force |-> FALSE, root |-> <<>>, file |-> "None"]
    /\ file = EmptyFile
    /\ data = <<>>
    /\ parsed = <<>>
    /\ error = "none"
    /\ visited = <<>>
    /\ idx = 0
    /\ store = {}
    /\ paths = <<>>
    /\ pure \in [fn : {"none"}, separator : StrSeparators, input : Strings,
                 outputs : { <<>> }]
    /\ log = <<>>
    /\ runs = <<>>

\* the string the next application takes
PureLast == IF pure.outputs = <<>> THEN pure.input
            ELSE pure.outputs[Len(pure.outputs)]

ApplyCleanCmdline ==
    /\ pc = "pure"
    /\ pure.fn \in {"none", "clean_cmdline"}
    /\ Len(pure.outputs) < 2
    /\ pure' = [pure EXCEPT !.fn = "clean_cmdline",
                            !.outputs = Append(@, clean_cmdline(PureLast))]
    /\ UNCHANGED <<pc, manager, arg, file, data, parsed, error, visited, idx,
                   store, paths, log, runs>>

ApplyConvert ==
    /\ pc = "pure"
    /\ pure.fn \in {"none", "convert"}
    /\ Len(pure.outputs) < 2
    /\ pure' = [pure EXCEPT !.fn = "convert",
                            !.outputs = Append(@, convert(pure.separator, PureLast))]
    /\ UNCHANGED <<pc, manager, arg, file, data, parsed, error, visited, idx,
                   store, paths, log, runs>>

ApplyCleanProtocol ==
    /\ pc = "pure"
    /\ pure.fn \in {"none", "clean_protocol"}
    /\ Len(pure.outputs) < 2
    /\ pure' = [pure EXCEPT !.fn = "clean_protocol",
                            !.outputs = Append(@, clean_protocol(PureLast))]
    /\ UNCHANGED <<pc, manager, arg, file, data, parsed, error, visited, idx,
                   store, paths, log, runs>>

NextStr == ApplyCleanCmdline \/ ApplyConvert \/ ApplyCleanProtocol

SpecStr == InitStr /\ [][NextStr]_vars

(***************************************************************************)
(* PasswordStore.is_valid_recipients on its own: the text of the .gpg-id   *)
(* file is pure.input, the ids that have a public and a secret key in the  *)
(* keyring are pure.public and pure.secret, the answer is the output.      *)
(***************************************************************************)
GpgIds == { <<"a">>, <<"b">> }

RECURSIVE Split(_, _)
\* s.split(c) for a character c
Split(s, c) ==
    IF \E i \in 1..Len(s) : s[i] = c
    THEN LET i == CHOOSE i \in 1..Len(s) :
                     s[i] = c /\ \A j \in 1..(i - 1) : s[j] # c
         IN  <<SubSeq(s, 1, i - 1)>> \o Split(Drop(s, i), c)
    ELSE <<s>>

RECURSIVE JoinLines(_)
\* the ids, one on a line, no newline after the last
JoinLines(ids) ==
    IF ids = <<>> THEN <<>>
    ELSE IF Len(ids) = 1 THEN ids[1]
    ELSE ids[1] \o <<"\n">> \o JoinLines(Tail(ids))

\* the texts of .gpg-id: at most MaxIds ids, with and without the newline
\* that ends the last line; the file without an id is empty
GpgIdTexts ==
    { JoinLines(ids) : ids \in SeqsUpTo(GpgIds, MaxIds) }
    \cup { JoinLines(ids) \o <<"\n">> : ids \in SeqsUpTo(GpgIds, MaxIds) \ { <<>> } }

\* gpg --list-keys gpgid, gpg --list-secret-keys gpgid: the return code
list_keys(gpgid, public) == IF gpgid \in public THEN 0 ELSE 2

\* is_valid_recipients
is_valid_recipients(text, public, secret) ==
    LET lines == Split(text, "\n")
        gpgids == SubSeq(lines, 1, Len(lines) - 1)
    IN  IF \E i \in 1..Len(gpgids) : list_keys(gpgids[i], public) # 0
        THEN FALSE
        ELSE \E i \in 1..Len(gpgids) : list_keys(gpgids[i], secret) = 0

InitGpg ==
    /\ pc = "pure"
    /\ manager = "none"
    /\ arg = [clean |-> FALSE, convert |-> FALSE, separator |-> <<"-">>,
              extra |-> FALSE, force |-> FALSE, root |-> <<>>, file |-> "None"]
    /\ file = EmptyFile
    /\ data = <<>>
    /\ parsed = <<>>
    /\ error = "none"
    /\ visited = <<>>
    /\ idx = 0
    /\ store = {}
    /\ paths = <<>>
    /\ \E public \in SUBSET GpgIds : \E secret \in SUBSET public :
          pure \in [fn : {"none"}, separator : { <<>> }, input : GpgIdTexts,
                    outputs : { <<>> }, public : {public}, secret : {secret}]
    /\ log = <<>>
    /\ runs = <<>>

ValidRecipients ==
    /\ pc = "pure"
    /\ pure.fn = "none"
    /\ pure' = [pure EXCEPT
                   !.fn = "is_valid_recipients",
                   !.outputs = <<is_valid_recipients(pure.input, pure.public,
                                                     pure.secret)>>]
    /\ UNCHANGED <<pc, manager, arg, file, data, parsed, error, visited, idx,
                   store, paths, log, runs>>

NextGpg == ValidRecipients

SpecGpg == InitGpg /\ [][NextGpg]_vars

(***************************************************************************)
(* One run with --path: the entries of groups and titles that start with   *)
(* '/' or '\' are inserted below the root, or not.                         *)
(***************************************************************************)
\* a title in a group, and the same with '/' and '\' in front of the title
\* or of the group
RootRows ==
    { [NoRow EXCEPT !.name = <<"t">>, !.grouping = <<"g">>],
      [NoRow EXCEPT !.name = <<"/", "t">>, !.grouping = <<"g">>],
      [NoRow EXCEPT !.name = <<"t">>, !.grouping = <<"/", "g">>],
      [NoRow EXCEPT !.name = <<"t">>, !.grouping = <<"\\", "g">>],
      [NoRow EXCEPT !.name = <<"\\", "t">>, !.grouping = <<>>] }

RootFiles ==
    { [header |-> Columns,
       rows |-> [i \in 1..Len(b) |->
                    [j \in 1..Len(Columns) |-> b[i][Columns[j]]]],
       tree |-> NoTree,
       empty |-> FALSE] : b \in SeqsUpTo(RootRows, MaxRootBatch) }

\* --path root, and no --path
RootArgs == [clean : BOOLEAN, convert : BOOLEAN, separator : { <<"-">> },
             extra : {FALSE}, force : {FALSE}, root : { <<>>, <<"r">> },
             file : {"export"}]

InitRoot ==
    /\ pc = "start"
    /\ manager = "lastpass"
    /\ arg \in RootArgs
    /\ file \in RootFiles
    /\ data = <<>>
    /\ parsed = <<>>
    /\ error = "none"
    /\ visited = <<>>
    /\ idx = 0
    /\ store = {}
    /\ paths = <<>>
    /\ pure = NoPure
    /\ log = <<>>
    /\ runs = <<>>

NextRoot == Parse \/ Clean \/ StoreChecks \/ Insert \/ Report

SpecRoot == InitRoot /\ [][NextRoot]_vars

(***************************************************************************)
(* The claims.                                                             *)
(***************************************************************************)
PathOf(entry) == Get(entry, "path")

\* PasswordManager.clean has returned
CleanReturned ==
    \/ pc \in {"cleaned", "inserting", "done"}
    \/ pc = "died" /\ error \in {"password store not initialized", "invalid user ID"}

\* C1: when clean returns, the paths of the entries of data are pairwise
\* distinct, for every batch and every clean, convert and separator setting.
C1_PathsDistinct ==
    CleanReturned =>
       \A i, j \in 1..Len(data) :
          i # j => PathOf(data[i]) # PathOf(data[j])

\* three identical rows have gone through clean
C1_Witness ==
    /\ pc = "cleaned"
    /\ Len(data) = 3
    /\ parsed[1] = parsed[2]
    /\ parsed[2] = parsed[3]

\* an entry as parsed that has the title Example and no group, login or url
C2_IsExample(entry) ==
    /\ Get(entry, "title") = Example
    /\ Get(entry, "group") = <<>>
    /\ Get(entry, "login") = <<>>
    /\ Get(entry, "url") = <<>>

\* clean has run with clean and convert off and the separator '-' on a batch
\* of n such entries
C2_Case(n) ==
    /\ pc = "cleaned"
    /\ ~arg.clean
    /\ ~arg.convert
    /\ arg.separator = <<"-">>
    /\ Len(parsed) = n
    /\ \A i \in 1..n : C2_IsExample(parsed[i])

C3_FirstKey(entry) ==
    IF Get(entry, "title") # <<>> THEN "title"
    ELSE IF Get(entry, "login") # <<>> THEN "login"
    ELSE IF Get(entry, "url") # <<>> THEN "url"
    ELSE ""

\* the leaf derived from a value: the protocol stripped, then cleaned and
\* converted as the options ask
C3_Derived(value) ==
    LET a == clean_protocol(value)
        b == IF arg.clean THEN clean_cmdline(a) ELSE a
    IN  IF arg.convert THEN convert(arg.separator, b) ELSE b

\* the cleaned group of a parsed entry
C3_Group(entry) ==
    clean_group(arg.separator, clean_protocol(Get(entry, "group")))

\* the paths of the batch after the first derivation of clean
C3_First ==
    [i \in 1..Len(parsed) |->
        PathOf(CleanEntry(parsed[i], arg.clean, arg.convert, arg.separator))]

\* the path of entry i collides with no other entry: no other entry was
\* first given the same path, and no earlier entry ends with it
C3_Solo(i) ==
    /\ \A j \in 1..Len(parsed) : j # i => C3_First[j] # C3_First[i]
    /\ \A j \in 1..(i - 1) : PathOf(data[j]) # C3_First[i]

\* C3 as claimed: the path of an entry that collides with no other is its
\* group joined with the leaf derived from the first of title, login, url
\* present with a non-empty value, and with notitle when none is present.
C3_Original ==
    pc = "cleaned" =>
       \A i \in 1..Len(data) :
          C3_Solo(i) =>
             PathOf(data[i]) =
                IF C3_FirstKey(parsed[i]) = ""
                THEN Join(C3_Group(parsed[i]), notitle)
                ELSE Join(C3_Group(parsed[i]),
                          C3_Derived(Get(parsed[i], C3_FirstKey(parsed[i]))))

\* C3 as amended: the leaf is notitle also when the value of the first
\* present key leaves nothing once the protocol is stripped and the value
\* cleaned and converted (a title "http://"); the later keys are not tried.
C3_Amended ==
    pc = "cleaned" =>
       \A i \in 1..Len(data) :
          C3_Solo(i) =>
             PathOf(data[i]) =
                IF \/ C3_FirstKey(parsed[i]) = ""
                   \/ C3_Derived(Get(parsed[i], C3_FirstKey(parsed[i]))) = <<>>
                THEN Join(C3_Group(parsed[i]), notitle)
                ELSE Join(C3_Group(parsed[i]),
                          C3_Derived(Get(parsed[i], C3_FirstKey(parsed[i]))))

\* the three examples of the claim in one batch, and no collision: title
\* Bank with a login, login alice alone, none of the three
C3_Witness ==
    /\ pc = "cleaned"
    /\ Len(data) = 3
    /\ Get(parsed[1], "title") = <<"B", "a", "n", "k">>
    /\ Get(parsed[1], "login") # <<>>
    /\ C3_FirstKey(parsed[2]) = "login"
    /\ Get(parsed[2], "login") = <<"a", "l", "i", "c", "e">>
    /\ C3_FirstKey(parsed[3]) = ""
    /\ \A i \in 1..3 : C3_Solo(i) /\ Get(parsed[i], "group") = <<>>
    /\ PathOf(data[1]) = <<"B", "a", "n", "k">>
    /\ PathOf(data[2]) = <<"a", "l", "i", "c", "e">>
    /\ PathOf(data[3]) = notitle

\* C5 as claimed: after clean every entry has a password key.
C5_Original ==
    pc = "cleaned" => \A i \in 1..Len(data) : Has(data[i], "password")

\* C5 as amended: after clean an entry has a password key exactly when its
\* password was parsed with a non-empty value; the removal of the empty
\* fields removes an empty password like every other empty field, and no
\* field of a cleaned entry is empty.
C5_Amended ==
    pc = "cleaned" =>
       \A i \in 1..Len(data) :
          /\ Has(data[i], "password") <=> Get(parsed[i], "password") # <<>>
          /\ \A n \in 1..Len(data[i]) : data[i][n].v # <<>>

\* an entry parsed with the key password and an empty value has lost the key
C5_Witness ==
    /\ pc = "cleaned"
    /\ \E i \in 1..Len(data) :
          /\ Has(parsed[i], "password")
          /\ Get(parsed[i], "password") = <<>>
          /\ ~Has(data[i], "password")

\* C6: after clean every entry has a path key with a non-empty value and
\* neither a title key nor a group key, whether or not the collision passes
\* recomputed its path.
C6_PathOnly ==
    CleanReturned =>
       \A i \in 1..Len(data) :
          /\ Has(data[i], "path")
          /\ PathOf(data[i]) # <<>>
          /\ ~Has(data[i], "title")
          /\ ~Has(data[i], "group")

\* two entries parsed with a title and a group collided and went through
\* both collision passes, next to an entry that did not collide
C6_Witness ==
    /\ pc = "cleaned"
    /\ \E i, j, n \in 1..Len(data) :
          /\ i # j
          /\ parsed[i] = parsed[j]
          /\ Get(parsed[i], "title") # <<>>
          /\ Get(parsed[i], "group") # <<>>
          /\ PathOf(data[i]) # C3_First[i]
          /\ C3_Solo(n)


\* the header of the file lacks a native column of the key table
C7_HeaderLacksKey ==
    \E item \in {keys(manager)[n] : n \in 1..Len(keys(manager))} :
       item[2] \notin {file.header[n] : n \in 1..Len(file.header)}

\* C7: for a CSV dialect, when the header of the file lacks a native column
\* of the key table, parse raises FormatError and data is empty afterwards,
\* however many rows the file has.
C7_FormatError ==
    (manager \in CSVManagers /\ pc # "start" /\ ~file.empty /\ C7_HeaderLacksKey) =>
       /\ pc = "died"
       /\ error = "FormatError"
       /\ data = <<>>

\* parse has run on a file of MaxBatch rows whose header lacks a column
C7_Witness ==
    /\ manager \in CSVManagers
    /\ pc = "died"
    /\ C7_HeaderLacksKey
    /\ Len(file.rows) = MaxBatch

\* C8: for an XML dialect, when the tag of the root differs from the
\* manager's format, parse raises FormatError before _import visits any
\* node, and data is empty.
C8_FormatError ==
    (manager \in XMLManagers /\ pc # "start" /\ file.tree.tag # format(manager)) =>
       /\ pc = "died"
       /\ error = "FormatError"
       /\ visited = <<>>
       /\ data = <<>>

\* parse has run on a tree with another root tag that holds entries
C8_Witness ==
    /\ manager \in XMLManagers
    /\ pc = "died"
    /\ file.tree.tag # format(manager)
    /\ file.tree.children # <<>>

\* the text the store holds for the i-th entry of the batch
TextOf(i) ==
    (CHOOSE s \in store : s.path = Join(arg.root, PathOf(data[i]))).text

RECURSIVE SplitLines(_)
\* text.split('\n')
SplitLines(text) ==
    IF ~Contains(text, "\n") THEN <<text>>
    ELSE LET n == CHOOSE n \in 1..Len(text) :
                     text[n] = "\n" /\ \A m \in 1..(n - 1) : text[m] # "\n"
         IN  <<SubSeq(text, 1, n - 1)>> \o SplitLines(Drop(text, n))

\* line.split(': ', 1): the key and the value, the value being the line
\* itself when there is no ': '
SplitKey(line) ==
    LET at == {n \in 1..(Len(line) - 1) : line[n] = ":" /\ line[n + 1] = " "}
    IN  IF at = {} THEN [key |-> <<>>, value |-> line]
        ELSE LET n == CHOOSE n \in at : \A m \in at : n <= m
             IN  [key |-> SubSeq(line, 1, n - 1), value |-> Drop(line, n + 1)]

\* the password read back: the first line
ReadPassword(text) == SplitLines(text)[1]

\* the value read back for a key: that of the first of the following lines
\* that has the key
ReadField(text, key) ==
    LET lines == Tail(SplitLines(text))
        at == {n \in 1..Len(lines) : SplitKey(lines[n]).key = KeyText(key)}
    IN  IF at = {} THEN <<>>
        ELSE SplitKey(lines[CHOOSE n \in at : \A m \in at : n <= m]).value

\* C9 as claimed: for every entry handed to the store, the first line of the
\* text is the entry's password and the login line gives back its login.
C9_Original ==
    pc \in {"inserting", "done"} =>
       \A i \in 1..idx :
          /\ ReadPassword(TextOf(i)) = Get(parsed[i], "password")
          /\ Get(parsed[i], "login") # <<>> =>
                ReadField(TextOf(i), "login") = Get(parsed[i], "login")

\* C9 as amended: the same for the entries whose password and login hold no
\* newline; spaces and tabs come back as they were.
C9_Amended ==
    pc \in {"inserting", "done"} =>
       \A i \in 1..idx :
          (/\ ~Contains(Get(parsed[i], "password"), "\n")
           /\ ~Contains(Get(parsed[i], "login"), "\n")) =>
             /\ ReadPassword(TextOf(i)) = Get(parsed[i], "password")
             /\ Get(parsed[i], "login") # <<>> =>
                   ReadField(TextOf(i), "login") = Get(parsed[i], "login")

\* an entry whose password holds a tab and whose login holds a space has
\* been handed to the store
C9_Witness ==
    /\ pc \in {"inserting", "done"}
    /\ \E i \in 1..idx :
          /\ Contains(Get(parsed[i], "password"), "\t")
          /\ Contains(Get(parsed[i], "login"), " ")
          /\ ReadField(TextOf(i), "login") = Get(parsed[i], "login")

\* the value of a column in the i-th row of the file, empty without the column
C10_Value(i, col) ==
    LET at == {n \in 1..Len(file.header) : file.header[n] = col}
    IN  IF at = {} THEN <<>> ELSE file.rows[i][CHOOSE n \in at : TRUE]

\* the line of a field, none for an empty field
C10_Line(key, value) ==
    IF value = <<>> THEN <<>>
    ELSE KeyText(key) \o <<":", " ">> \o value \o <<"\n">>

\* the columns no canonical key maps to, in the order of the header
C10_ExtraColumns ==
    SelectSeq(file.header,
              LAMBDA col : \A n \in 1..Len(keyslist) :
                              NativeKey(manager, keyslist[n]) # col)

\* the text the claim describes for the i-th row
C10_Expected(i) ==
    LET canon == <<"login", "url", "comments", "binary">>
        extras == IF arg.extra THEN C10_ExtraColumns ELSE <<>>
    IN  C10_Value(i, NativeKey(manager, "password")) \o <<"\n">>
        \o Concat([n \in 1..Len(canon) |->
                      C10_Line(canon[n], C10_Value(i, NativeKey(manager, canon[n])))])
        \o Concat([n \in 1..Len(extras) |->
                      C10_Line(extras[n], C10_Value(i, extras[n]))])

\* C10: the text handed to the store for an entry of a CSV file is the
\* password line (empty for an empty password), then one 'key: value' line
\* for each remaining non-empty field other than path: login, url, comments,
\* binary in this order, then the extra fields in the order of insertion,
\* which is the order of their columns (no extra column is named like a
\* canonical key here).
C10_Text ==
    (manager \in CSVManagers /\ pc \in {"inserting", "done"}) =>
       \A i \in 1..idx : TextOf(i) = C10_Expected(i)

\* an entry with an empty password, a login, a url and three extra fields
\* has been handed to the store
C10_Witness ==
    /\ manager = "chrome"
    /\ arg.extra
    /\ pc \in {"inserting", "done"}
    /\ \E i \in 1..idx :
          /\ C10_Value(i, "password") = <<>>
          /\ \A col \in {"username", "url", "extra", "fav"} :
                C10_Value(i, col) # <<>>
          /\ Len(C10_ExtraColumns) = 3

\* C4 as claimed: _clean_cmdline and _convert are idempotent, for every
\* input string.
C4_Original ==
    Len(pure.outputs) = 2 => pure.outputs[2] = pure.outputs[1]

\* C4 as amended: _convert is idempotent when the separator is a single
\* character, and _clean_cmdline is idempotent on the strings whose only
\* whitespace is the space (a tab or newline laid bare by the removal of an
\* apostrophe or a bracket is stripped by the second application).
C4_Amended ==
    Len(pure.outputs) = 2 =>
       /\ (pure.fn = "convert" /\ Len(pure.separator) = 1) =>
             pure.outputs[2] = pure.outputs[1]
       /\ (/\ pure.fn = "clean_cmdline"
           /\ \A n \in 1..Len(pure.input) : pure.input[n] \notin {"\t", "\n"}) =>
             pure.outputs[2] = pure.outputs[1]

\* _clean_cmdline has been applied twice to a string it changes
C4_Witness ==
    /\ pure.fn = "clean_cmdline"
    /\ Len(pure.outputs) = 2
    /\ \A n \in 1..Len(pure.input) : pure.input[n] \notin {"\t", "\n"}
    /\ Contains(pure.input, "'")
    /\ Contains(pure.input, " ")
    /\ pure.outputs[1] # pure.input

\* one call of store.insert by main, seen as a step: the path it is given,
\* whether the store holds an entry at that path, and its outcome
C11_Step ==
    (pc = "inserting" /\ idx' = idx + 1) =>
       LET path == Join(arg.root, PathOf(data[idx + 1]))
           used == \E s \in store : s.path = path
           call == log'[Len(log')]
       IN  /\ Len(log') = Len(log) + 1
           /\ call.path = path
           /\ (~arg.force /\ used) =>
                 call.result = "exists" /\ store' = store
           /\ (arg.force \/ ~used) =>
                 /\ call.result \in {"inserted", "pass error"}
                 /\ call.result = "inserted" =>
                       /\ [path |-> path, text |-> get(data[idx + 1])] \in store'
                       /\ \A s \in store' :
                             s.path = path => s.text = get(data[idx + 1])

\* C11: store.insert without force on a path that holds an entry fails with
\* the already-exists error and leaves the store as it is; without force on
\* an unused path, and with force on any path, it hands the secret to pass,
\* and the store holds it at that path once pass has returned 0.
C11_Insert == [][C11_Step]_vars

\* a run without force has met the already-exists error on a path, and the
\* run after it, with force, has inserted at that path
C11_Witness ==
    /\ Len(runs) = 2
    /\ ~runs[2].force
    /\ arg.force
    /\ \E i \in 1..Len(runs[2].log), j \in 1..Len(log) :
          /\ runs[2].log[i].result = "exists"
          /\ log[j].result = "inserted"
          /\ log[j].path = runs[2].log[i].path

\* the paths of the entries that the insert loop has gone through and whose
\* call of store.insert returned, in the order of the loop
C12_Inserted ==
    LET done == SelectSeq([i \in 1..idx |-> i],
                          LAMBDA i : log[i].result = "inserted")
    IN  [n \in 1..Len(done) |-> PathOf(data[done[n]])]

\* C12: the insert loop calls store.insert once for each entry of data, in
\* turn, whatever the calls before it did, and paths holds the path of an
\* entry exactly when its own call returned without a store error.
C12_EachOnce ==
    pc \in {"inserting", "done"} =>
       /\ Len(log) = idx
       /\ pc = "done" => idx = Len(data)
       /\ \A i \in 1..idx : log[i].path = Join(arg.root, PathOf(data[i]))
       /\ pc = "inserting" => paths = C12_Inserted
       /\ pc = "done" => paths = Sorted(C12_Inserted)

\* a run has ended in which the calls for the first two entries failed and
\* the call for the third returned
C12_Witness ==
    /\ pc = "done"
    /\ Len(data) = 3
    /\ log[1].result = "exists"
    /\ log[2].result # "inserted"
    /\ log[3].result = "inserted"
    /\ Len(paths) = 1

\* what main dies of: the three errors of sanitychecks, the format mismatch
\* and the two store-setup checks
C13_FatalErrors ==
    {"password manager not present", "not a supported password manager",
     "not a file", "FormatError", "password store not initialized",
     "invalid user ID"}

\* the store as the run found it
C13_StoreAtStart ==
    IF runs = <<>> THEN {s \in store : s \in UNION InitialStores}
    ELSE runs[Len(runs)].store

\* C13: a run that has met one of the fatal errors has ended with exit code 1
\* without a single call of store.insert, the store being as the run found
\* it; a run that has called store.insert has met none, both store-setup
\* checks having passed before the first call.
C13_FatalBeforeInsert ==
    /\ error \in C13_FatalErrors =>
          /\ pc = "died"
          /\ ExitCode = 1
          /\ log = <<>>
          /\ idx = 0
          /\ paths = <<>>
          /\ store = C13_StoreAtStart
    /\ pc = "died" => error \in C13_FatalErrors
    /\ log # <<>> => pc \in {"inserting", "done"} /\ error = "none"

\* the second run on a store that the first run has filled dies of the
\* keyring check
C13_Witness ==
    /\ Len(runs) = 1
    /\ runs[1].paths # <<>>
    /\ pc = "died"
    /\ error = "invalid user ID"
    /\ store = runs[1].store

\* the first run was made without force and ended with its report, and pass
\* has returned 0 whenever it was called
C14_FirstRunDone ==
    /\ Len(runs) >= 1
    /\ runs[1].pc = "done"
    /\ ~runs[1].force
    /\ PassErrors = 0

\* the errors of the store-setup checks, which are answers of the environment
C14_SetupErrors ==
    {"PasswordStoreError", "password store not initialized", "invalid user ID"}

\* C14: on the same source and store, a second run without force inserts
\* nothing, leaves the store as the first run left it and is not ended by an
\* insert that fails; a third run, with force, inserts every entry of data.
C14_ThreeRuns ==
    /\ (C14_FirstRunDone /\ Len(runs) = 1 /\ ~arg.force) =>
          /\ paths = <<>>
          /\ store = runs[1].store
          /\ \A i \in 1..Len(log) : log[i].result = "exists"
          /\ pc # "hung"
          /\ pc \in {"died", "crashed"} => error \in C14_SetupErrors
    /\ (/\ C14_FirstRunDone
        /\ Len(runs) = 2 /\ runs[2].pc = "done" /\ ~runs[2].force
        /\ arg.force /\ pc = "done") =>
          /\ Len(paths) = Len(data)
          /\ \A i \in 1..Len(data) :
                /\ log[i].result = "inserted"
                /\ \E s \in store : s.path = Join(arg.root, PathOf(data[i]))

\* the third run, with force, has ended after two runs without force on a
\* file of three entries that the first run has inserted
C14_Witness ==
    /\ C14_FirstRunDone
    /\ Len(runs) = 2
    /\ runs[2].pc = "done"
    /\ ~runs[2].force
    /\ arg.force
    /\ pc = "done"
    /\ Len(data) = 3
    /\ Len(runs[1].paths) = 3
    /\ Len(runs[2].log) = 3
    /\ runs[2].paths = <<>>
    /\ Len(paths) = 3

\* the fields of an entry but its path and its password
C15_Fields(entry) ==
    SelectSeq(entry, LAMBDA f : f.k \notin {"path", "password"})

\* the fields of a parsed entry that clean keeps, but its password
C15_Kept(entry) ==
    SelectSeq(entry,
              LAMBDA f : f.v # <<>> /\ f.k \notin {"title", "group", "password"})

RECURSIVE C15_First(_)
\* the paths the first derivation of clean gives the first n parsed entries
C15_First(n) ==
    IF n = 0 THEN <<>>
    ELSE Append(C15_First(n - 1),
                PathOf(CleanEntry(parsed[n], arg.clean, arg.convert,
                                  arg.separator)))

\* C15: after clean, data has as many entries as parse made, the i-th holds
\* the fields of the i-th parsed entry and the path derived from it, and the
\* insert loop calls store.insert for them in that order.
C15_SameOrder ==
    CleanReturned =>
       /\ Len(data) = Len(parsed)
       /\ LET first == C15_First(Len(parsed))
          IN  \A i \in 1..Len(data) :
                 /\ C15_Fields(data[i]) = C15_Kept(parsed[i])
                 /\ i > idx =>
                       Get(data[i], "password") = Get(parsed[i], "password")
                 /\ (/\ \A j \in 1..Len(parsed) : j # i => first[j] # first[i]
                     /\ \A j \in 1..(i - 1) : PathOf(data[j]) # first[i])
                       => PathOf(data[i]) = first[i]
       /\ Len(log) = idx
       /\ \A i \in 1..idx : log[i].path = Join(arg.root, PathOf(data[i]))

\* a batch of three entries, the first and the last alike and colliding, has
\* been cleaned and inserted
C15_Witness ==
    /\ pc = "done"
    /\ Len(data) = 3
    /\ parsed[1] = parsed[3]
    /\ parsed[1] # parsed[2]
    /\ C15_Fields(data[2]) # C15_Fields(data[1])
    /\ C3_Solo(2)
    /\ idx = 3

RECURSIVE C16_Nodes(_, _)
\* the elements below an element, each with its tag and its place in the
\* tree: the positions, among the children, of the elements that lead to it
C16_Nodes(element, chain) ==
    UNION { LET c == element.children[n]
            IN  {[id |-> c.id, tag |-> c.tag, chain |-> Append(chain, n),
                  title |-> Get(c.fields, "title")]}
                \cup C16_Nodes(c, Append(chain, n)) :
            n \in 1..Len(element.children) }

\* the entry elements in the order in which _import has appended them
C16_Appended ==
    LET nodes == C16_Nodes(file.tree, <<>>)
        ids == SelectSeq(visited,
                         LAMBDA id : \E e \in nodes : e.id = id /\ e.tag = "entry")
    IN  [i \in 1..Len(ids) |-> CHOOSE e \in nodes : e.id = ids[i]]

\* where the ways to two entries part
C16_Fork(a, b) ==
    CHOOSE k \in 1..Len(a.chain) :
       /\ k <= Len(b.chain)
       /\ a.chain[k] # b.chain[k]
       /\ \A n \in 1..(k - 1) : a.chain[n] = b.chain[n]

\* entry a stands before entry b in the file
C16_FileBefore(a, b) == a.chain[C16_Fork(a, b)] < b.chain[C16_Fork(a, b)]

\* entry a is appended before entry b: an entry of a subgroup before a
\* direct entry of the group, and file order otherwise
C16_GroupsFirst(a, b) ==
    LET k == C16_Fork(a, b)
        aDirect == k = Len(a.chain)
        bDirect == k = Len(b.chain)
    IN  IF aDirect = bDirect THEN a.chain[k] < b.chain[k] ELSE bDirect

\* _import has walked the tree of an XML file
C16_Imported ==
    /\ manager \in XMLManagers
    /\ pc \notin {"args", "start"}
    /\ error # "FormatError"

\* C16 as claimed: the entries are appended to data in the order of the
\* file, a direct entry of a group and a later entry of a subgroup included.
C16_Original ==
    C16_Imported =>
       \A i, j \in 1..Len(C16_Appended) :
          i < j => C16_FileBefore(C16_Appended[i], C16_Appended[j])

\* C16 as amended: data holds one entry per entry element; the entries of
\* the subgroups of a group come before the direct entries of the group,
\* and the entries are in file order otherwise.
C16_Amended ==
    C16_Imported =>
       /\ Len(C16_Appended) = Len(parsed)
       /\ Len(parsed) =
             Cardinality({e \in C16_Nodes(file.tree, <<>>) : e.tag = "entry"})
       /\ \A i \in 1..Len(parsed) :
             Get(parsed[i], "title") =
                IF C16_Appended[i].title = <<>> THEN untitled
                ELSE C16_Appended[i].title
       /\ \A i, j \in 1..Len(C16_Appended) :
             i < j => C16_GroupsFirst(C16_Appended[i], C16_Appended[j])

\* a group with an entry, a subgroup that holds an entry, and an entry again
\* has been walked: the entry of the subgroup is the first in data
C16_Witness ==
    /\ C16_Imported
    /\ Len(parsed) = 3
    /\ Len(C16_Appended[1].chain) = 3
    /\ Len(C16_Appended[2].chain) = 2
    /\ C16_FileBefore(C16_Appended[2], C16_Appended[1])
    /\ C16_FileBefore(C16_Appended[1], C16_Appended[3])

\* a string without its leading protocol, and as it is when it starts with
\* neither
C17_PrefixStripped(string) ==
    IF StartsWith(string, protocols[1]) THEN Drop(string, Len(protocols[1]))
    ELSE IF StartsWith(string, protocols[2]) THEN Drop(string, Len(protocols[2]))
    ELSE string

\* C17: _clean_protocol removes a leading 'http://' or 'https://' and
\* nothing else: a string that starts with neither comes back unchanged and
\* the occurrences after the first character are kept.
C17_PrefixOnly ==
    (pure.fn = "clean_protocol" /\ pure.outputs # <<>>) =>
       pure.outputs[1] = C17_PrefixStripped(pure.input)

\* what a character of the stripped string becomes, '/' being left as it is
C18_Claimed(c) ==
    CASE c = " " -> <<"_">>
      [] c = "&" -> <<"a", "n", "d">>
      [] c = "@" -> <<"A", "t">>
      [] c \in {"'", "[", "]"} -> <<>>
      [] OTHER -> <<c>>

\* the same with '/' turned into '-'
C18_Table(c) == IF c = "/" THEN <<"-">> ELSE C18_Claimed(c)

\* C18 as claimed: the text is the stripped input with space, '&', '@',
\* apostrophe, '[' and ']' substituted and every other character, '/'
\* included, as it is.
C18_Original ==
    (pure.fn = "clean_cmdline" /\ pure.outputs # <<>>) =>
       pure.outputs[1] =
          Concat([n \in 1..Len(Strip(pure.input)) |->
                     C18_Claimed(Strip(pure.input)[n])])

\* C18 as amended: the same substitutions, and '/' to '-' after them; every
\* other character is left as it is.
C18_Amended ==
    (pure.fn = "clean_cmdline" /\ pure.outputs # <<>>) =>
       pure.outputs[1] =
          Concat([n \in 1..Len(Strip(pure.input)) |->
                     C18_Table(Strip(pure.input)[n])])

\* _clean_cmdline has been applied to a string with white space at an end, a
\* '/' and a '@'
C18_Witness ==
    /\ pure.fn = "clean_cmdline"
    /\ pure.outputs # <<>>
    /\ pure.input # <<>>
    /\ Head(pure.input) \in Whitespace
    /\ Contains(pure.input, "/")
    /\ Contains(pure.input, "@")
    /\ Contains(pure.outputs[1], "-")

\* _duplicate_numerise has run from data to data' and has ended
C19_Pass == pc = "subfoldered" /\ pc' = "cleaned"

\* entry i is the first of data that holds its path
C19_FirstHolder(i) ==
    \A j \in 1..(i - 1) : PathOf(data[j]) # PathOf(data[i])

\* C19 as claimed: the first entry that holds a path when the pass starts
\* has that path when the pass ends, so that only entries that are not the
\* first holder of their path get another path.
C19_Original ==
    [][C19_Pass =>
          \A i \in 1..Len(data) :
             C19_FirstHolder(i) => PathOf(data'[i]) = PathOf(data[i])]_vars

\* C19 as amended: an entry keeps the path it holds when the pass starts
\* exactly when no entry before it ends the pass with that path, be it a
\* path that entry came with or a numbered path the pass gave it; so the
\* first holder of a path keeps it unless the pass has given that path to an
\* entry before it, and nothing of an entry but its path changes.
C19_Amended ==
    [][C19_Pass =>
          /\ Len(data') = Len(data)
          /\ \A i \in 1..Len(data) :
                /\ (PathOf(data'[i]) = PathOf(data[i])) <=>
                      \A j \in 1..(i - 1) : PathOf(data'[j]) # PathOf(data[i])
                /\ C15_Fields(data'[i]) = C15_Fields(data[i])
                /\ Get(data'[i], "password") = Get(data[i], "password")
                /\ i = 1 => data'[i] = data[i]]_vars

\* the pass has ended on three entries: the second came with the path of
\* the first and has the numbered path the third came with, and the third,
\* the only holder of that path, has another
C19_Witness ==
    /\ pc = "cleaned"
    /\ Len(data) = 3
    /\ parsed[1] = parsed[2]
    /\ Get(parsed[3], "title") = notitle \o <<"-", "1">>
    /\ PathOf(data[2]) = PathOf(data[1]) \o <<"-", "1">>
    /\ PathOf(data[2]) = C3_First[3]
    /\ PathOf(data[3]) # C3_First[3]

\* the step of the group-collision pass
C20_Pass == pc = "derived" /\ pc' = "subfoldered"

\* the entries that hold the path of entry i when the pass starts
C20_Sharing(i) == {j \in 1..Len(data) : PathOf(data[j]) = PathOf(data[i])}

\* the leaf the pass derives for an entry, whose title the first derivation
\* has taken out: from its login, else from its url, "notitle" when it has
\* neither or the derived text is empty
C20_Leaf(entry) ==
    LET key == IF Has(entry, "login") THEN "login"
               ELSE IF Has(entry, "url") THEN "url" ELSE ""
        leaf == IF key = "" THEN <<>> ELSE C3_Derived(Get(entry, key))
    IN  IF leaf = <<>> THEN notitle ELSE leaf

\* C20 as stated: an entry that shares its path with another entry after the
\* first derivation has the same path after the group-collision pass, so the
\* entries that collided before the pass collide after it.
C20_Original == [][C20_Pass => \A i \in 1..Len(data) :
      Cardinality(C20_Sharing(i)) > 1 =>
          PathOf(data'[i]) = PathOf(data[i])]_vars

\* C20: the group-collision pass turns a shared path P into a folder: every
\* entry that shares P gets the path P/leaf, the leaf derived under the same
\* clean and convert options from its login, else its url, else "notitle";
\* two such entries collide after the pass exactly when their leaves are
\* equal. No other field changes, and an entry whose path is its own is left
\* as it is.
C20_Amended == [][C20_Pass =>
      /\ Len(data') = Len(data)
      /\ \A i \in 1..Len(data) :
            IF Cardinality(C20_Sharing(i)) > 1
            THEN /\ PathOf(data'[i]) = Join(PathOf(data[i]), C20_Leaf(data[i]))
                 /\ C15_Fields(data'[i]) = C15_Fields(data[i])
                 /\ Get(data'[i], "password") = Get(data[i], "password")
                 /\ \A j \in C20_Sharing(i) :
                       (PathOf(data'[j]) = PathOf(data'[i])) <=>
                           (C20_Leaf(data[j]) = C20_Leaf(data[i]))
            ELSE data'[i] = data[i]]_vars

\* two entries of one title and group with the logins u and v, which the
\* pass has put at g/t/u and g/t/v, and a third without a login at
\* g/t/notitle
C20_Witness ==
    /\ pc = "subfoldered" /\ Len(data) = 3
    /\ \A i \in 1..3 : C3_First[i] = <<"g", "/", "t">>
    /\ Get(parsed[1], "login") = <<"u">> /\ Get(parsed[2], "login") = <<"v">>
    /\ PathOf(data[1]) = <<"g", "/", "t", "/", "u">>
    /\ PathOf(data[2]) = <<"g", "/", "t", "/", "v">>
    /\ PathOf(data[3]) = <<"g", "/", "t", "/">> \o notitle

\* the number a string of digits writes
C21_Value(digits) ==
    LET RECURSIVE val(_)
        val(s) == IF s = <<>> THEN 0
                  ELSE 10 * val(SubSeq(s, 1, Len(s) - 1))
                       + (CHOOSE d \in 0..9 : DigitChar(d) = s[Len(s)])
    IN  val(digits)

\* where the digits that end a path start; Len(path) + 1 when it ends with
\* none
C21_DigitsFrom(path) ==
    CHOOSE i \in 1..(Len(path) + 1) :
       /\ \A k \in i..Len(path) : path[k] \in Digits
       /\ i > 1 => path[i - 1] \notin Digits

\* the path ends in <sep><digits>
C21_Suffixed(path, separator) ==
    /\ C21_DigitsFrom(path) <= Len(path)
    /\ EndsWith(SubSeq(path, 1, C21_DigitsFrom(path) - 1), separator)

\* the path that the lowest free suffix makes of a path that is in seen
C21_Lowest(path, seen, separator) ==
    LET suffixed == C21_Suffixed(path, separator)
        from == C21_DigitsFrom(path)
        stem == IF suffixed THEN SubSeq(path, 1, from - 1)
                ELSE path \o separator
        d == IF suffixed THEN C21_Value(SubSeq(path, from, Len(path))) ELSE 0
        n == CHOOSE n \in (d + 1)..(d + Cardinality(seen) + 1) :
                /\ stem \o Str(n) \notin seen
                /\ \A k \in (d + 1)..(n - 1) : stem \o Str(k) \in seen
    IN  stem \o Str(n)

\* the paths that the entries before entry i have when the pass ends
C21_Seen(i) == {PathOf(data'[j]) : j \in 1..(i - 1)}

\* C21: when the numeric-suffix pass ends, an entry whose path P was in seen
\* has P<sep>n, n the least number from 1 on that is free, or, P being
\* Q<sep>d, Q<sep>m with m the least number above d that is free: the
\* characters before the suffix are those of P.
C21_LowestSuffix == [][C19_Pass =>
      \A i \in 1..Len(data) :
         PathOf(data[i]) \in C21_Seen(i) =>
            PathOf(data'[i]) =
               C21_Lowest(PathOf(data[i]), C21_Seen(i), arg.separator)]_vars

\* parse has returned from a 1PIF file
C22_Parsed == manager \in PIFManagers /\ pc \notin {"args", "start"}

\* the webforms.WebForm items of the file, in file order
C22_Forms ==
    SelectSeq(file.jsons, LAMBDA item : Get(item.top, "typeName") = WebForm)

\* C22: the value of a canonical key of a 1PIF entry is the first match in
\* the order top-level keys, secureContents, named fields: the top-level
\* value when the native key is at the top level and in secureContents, the
\* value of secureContents when it is there and among the fields.  (The
\* group is left out: _sortgroup replaces it by the folder's path.)
C22_FirstMatch ==
    C22_Parsed =>
       /\ Len(parsed) = Len(C22_Forms)
       /\ \A i \in 1..Len(parsed) : \A n \in 1..Len(keyslist) :
             LET key == keyslist[n]
                 jsonkey == NativeKey(manager, key)
                 item == C22_Forms[i]
             IN  (key # "group" /\ jsonkey # "") =>
                    /\ (Has(item.top, jsonkey) /\ Has(item.scontent, jsonkey))
                          => Get(parsed[i], key) = Get(item.top, jsonkey)
                    /\ (/\ ~Has(item.top, jsonkey)
                        /\ Has(item.scontent, jsonkey)
                        /\ FieldIndex(jsonkey, item.fields) # 0)
                          => Get(parsed[i], key) = Get(item.scontent, jsonkey)

\* parse has returned from a CSV file read with the extra fields
C23_Parsed ==
    /\ manager \in CSVManagers
    /\ pc \notin {"args", "start"}
    /\ error = "none"
    /\ arg.extra

\* the value of a column in the i-th row of the file
C23_Cell(i, column) ==
    file.rows[i][CHOOSE j \in 1..Len(file.header) : file.header[j] = column]

\* C23: with the extra fields on, the value of every canonical key that the
\* manager maps to a column of the header is the row's value in that column,
\* whatever the other columns are called.
C23_CanonKept ==
    C23_Parsed =>
       /\ Len(parsed) = Len(file.rows)
       /\ \A i \in 1..Len(parsed) : \A n \in 1..Len(keys(manager)) :
             Get(parsed[i], keys(manager)[n][1]) =
                C23_Cell(i, keys(manager)[n][2])

RECURSIVE C24_Titles(_, _)
\* the titles of the folders from the top of the hierarchy down to the
\* folder uuid, joined by '/'; n bounds the walk up (the hierarchy has no
\* cycle), and a folder that the file does not hold has the path ''
C24_Titles(uuid, n) ==
    LET holds == {i \in 1..Len(file.jsons) :
                     /\ Get(file.jsons[i].top, "typeName") = Folder
                     /\ Get(file.jsons[i].top, "uuid") = uuid}
        folder == file.jsons[CHOOSE i \in holds : TRUE].top
    IN  IF holds = {} \/ n = 0 THEN <<>>
        ELSE Join(C24_Titles(Get(folder, "folderUuid"), n - 1),
                  Get(folder, "title"))

\* C24: after parse, the group of every 1PIF entry is the path of folder
\* titles from the top-level ancestor down to the entry's folder, whatever
\* the order of the folder records in the file.
C24_GroupPath ==
    C22_Parsed =>
       \A i \in 1..Len(parsed) :
          Get(parsed[i], "group") =
             C24_Titles(Get(C22_Forms[i].top, "folderUuid"), Len(file.jsons))

\* the ids that the .gpg-id file lists: its lines that are not empty
C25_Listed ==
    {id \in {Split(pure.input, "\n")[i] :
                i \in 1..Len(Split(pure.input, "\n"))} : id # <<>>}

\* C25: is_valid_recipients answers True exactly when every id listed in
\* .gpg-id has a public key in the keyring and one of them a secret key,
\* with and without a newline after the last id.
C25_Valid ==
    pure.fn = "is_valid_recipients" =>
       (pure.outputs[1] <=>
           /\ \A id \in C25_Listed : id \in pure.public
           /\ \E id \in C25_Listed : id \in pure.secret)

\* C26: the numeric-suffix pass ends for every batch and every separator:
\* clean never stays in the inner loop of _duplicate_numerise, also for a
\* colliding path that ends in <sep>0 and for the separator '.'.
C26_Terminates == pc # "hung"

\* C27: every path that main hands to store.insert lies under the root of
\* --path: it is the root, a '/', and the path of the entry, and the path of
\* the entry starts with its cleaned group, also for a group or a title
\* that starts with '/' or '\'.
C27_UnderRoot ==
    \A i \in 1..Len(log) :
       /\ log[i].path =
             (IF arg.root = <<>> THEN <<>> ELSE arg.root \o <<"/">>)
             \o PathOf(data[i])
       /\ StartsWith(PathOf(data[i]), C3_Group(parsed[i]))

=============================================================================
